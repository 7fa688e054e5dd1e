---------------------------- MODULE EventStream ----------------------------
(***************************************************************************)
(* What a client of ELTN_Parser may rely on: the order in which events can *)
(* come.  A document is either a list of definitions, each a name and then *)
(* a value, or one table.  A table holds keys, each followed by its value, *)
(* and values without a key, and every table that starts is ended before   *)
(* the document is.  An error may come at any point, and nothing after it. *)
(*                                                                         *)
(* Parser.tla, the specification of src/src/eparser.c, implements this     *)
(* module.                                                                 *)
(***************************************************************************)
EXTENDS Naturals

VARIABLES
  event,    (* the current event                                            *)
  open,     (* how many tables have started and not ended; 0 after an error *)
  single    (* the document is one table, not a list of definitions         *)

vars == <<event, open, single>>

Key    == {"KEY_STRING", "KEY_NUMBER", "KEY_INTEGER"}
Scalar == {"VALUE_STRING", "VALUE_NUMBER", "VALUE_INTEGER",
           "VALUE_TRUE", "VALUE_FALSE", "VALUE_NIL"}
Final  == {"STREAM_END", "ERROR"}
Event  == {"STREAM_START", "DEF_NAME", "TABLE_START", "TABLE_END"}
            \cup Key \cup Scalar \cup Final

(* A value is complete, so what comes next belongs to what surrounds it. *)
ValueDone == event \in Scalar \cup {"TABLE_END"}

(* Inside a table, where an entry may begin or the table end. *)
AtEntry == open > 0 /\ (ValueDone \/ event = "TABLE_START")

(* Outside every table, where a definition may begin or the document end. *)
AtTop == event = "STREAM_START" \/ (ValueDone /\ open = 0)

(* After a name or a key. *)
AwaitsValue == event \in Key \cup {"DEF_NAME"}

Init ==
  /\ event = "STREAM_START"
  /\ open = 0
  /\ single = FALSE

Define ==
  /\ AtTop /\ ~single
  /\ event' = "DEF_NAME"
  /\ UNCHANGED <<open, single>>

NameEntry ==
  /\ AtEntry
  /\ event' \in Key
  /\ UNCHANGED <<open, single>>

GiveScalar ==
  /\ AwaitsValue \/ AtEntry
  /\ event' \in Scalar
  /\ UNCHANGED <<open, single>>

StartTable ==
  /\ \/ (AwaitsValue \/ AtEntry) /\ UNCHANGED single
     \/ event = "STREAM_START" /\ single' = TRUE
  /\ event' = "TABLE_START"
  /\ open' = open + 1

EndTable ==
  /\ AtEntry
  /\ event' = "TABLE_END"
  /\ open' = open - 1
  /\ UNCHANGED single

EndStream ==
  /\ AtTop
  /\ event' = "STREAM_END"
  /\ UNCHANGED <<open, single>>

Fail ==
  /\ event \notin Final
  /\ event' = "ERROR"
  /\ open' = 0
  /\ single' \in {single, TRUE}

Next ==
  Define \/ NameEntry \/ GiveScalar \/ StartTable \/ EndTable \/ EndStream \/ Fail

Spec == Init /\ [][Next]_vars

=============================================================================
