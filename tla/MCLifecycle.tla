---------------------------- MODULE MCLifecycle ----------------------------
(***************************************************************************)
(* Lifecycle where one allocation of any call is refused; or, so that a    *)
(* set comes to be full, the larger array each time it is asked for; or    *)
(* the array of a new set and then the copy of a key to look for.          *)
(***************************************************************************)
EXTENDS Lifecycle

AnyCall == {"parser", "part", "emitter", "set", "array", "key", "larger",
          "iterator", "keys", "text", "string", "copy"}

MCRefusals ==
  {<<call>> : call \in AnyCall}
    \cup {<<"larger", "larger", "larger">>, <<"array", "key">>}
=============================================================================
