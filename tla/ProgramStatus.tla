---------------------------- MODULE ProgramStatus ----------------------------
(***************************************************************************)
(* OSC 7501 of src/vt/osc7501.go: the record set a terminal keeps of the   *)
(* programs running in it, how a report becomes a record, and the one      *)
(* status the records fold into.  An id is a path of names, the empty path *)
(* the root; a programStatus is a record p with the fields of the struct,  *)
(* and apply is the one operator that changes it.                          *)
(***************************************************************************)
EXTENDS Integers, Sequences, FiniteSets

CONSTANTS
    Ids,          \* the ids programs report under, sequences of names
    Apps,         \* the app names they give
    MaxRecords    \* records kept (programStatusMaxRecords, 64)

ASSUME RecordsAssumption ==
    /\ Ids \subseteq Seq(STRING) /\ <<>> \in Ids /\ MaxRecords \in Nat \ {0}

Root == <<>>
NoApp == "no app"
ProgramKinds == {"permission", "question", "auth"}
Unfinished == {"working", "blocked"}
ProgramStates == {"idle", "done", "error"} \cup Unfinished
NoRecord == [state |-> "", kind |-> "", app |-> NoApp, touched |-> 0]

Under(id, top) == Len(top) <= Len(id) /\ SubSeq(id, 1, Len(top)) = top

-----------------------------------------------------------------------------
(* The record set.                                                         *)

Drop(recs, gone) == [id \in DOMAIN recs \ gone |-> recs[id]]
clear(recs, id) == Drop(recs, {i \in DOMAIN recs : Under(i, id)})
dropUnfinished(recs) == Drop(recs, {i \in DOMAIN recs : recs[i].state \in Unfinished})
evict(recs) ==
    Drop(recs, {i \in DOMAIN recs : \A j \in DOMAIN recs : recs[i].touched <= recs[j].touched})

Changes(recs, id, rec) ==
    id \notin DOMAIN recs \/ recs[id].state # rec.state \/ recs[id].kind # rec.kind
store(recs, id, rec, n) ==
    LET kept == IF id \notin DOMAIN recs /\ Cardinality(DOMAIN recs) >= MaxRecords
                THEN evict(recs) ELSE recs
    IN [i \in DOMAIN kept \cup {id} |-> IF i = id THEN [rec EXCEPT !.touched = n] ELSE kept[i]]

(* The record shown: a blocked root, else the blocked record reported      *)
(* last, else the root; no record at all is Root with NoRecord.            *)
Blocked(recs) == {i \in DOMAIN recs : recs[i].state = "blocked"}
fold(recs) ==
    IF Blocked(recs) = {} \/ Root \in Blocked(recs) THEN Root
    ELSE CHOOSE i \in Blocked(recs) : \A j \in Blocked(recs) : recs[j].touched <= recs[i].touched
Shown(recs) ==
    LET id == fold(recs)
        rec == IF id \in DOMAIN recs THEN recs[id] ELSE NoRecord
    IN [id |-> id, state |-> rec.state, kind |-> rec.kind, ok |-> id \in DOMAIN recs]

(* Its app, or that of its nearest ancestor which names one.               *)
programApp(recs, id) ==
    LET named == {i \in DOMAIN recs : Under(id, i) /\ recs[i].app # NoApp}
    IN IF named = {} THEN NoApp
       ELSE recs[CHOOSE i \in named : \A j \in named : Len(j) <= Len(i)].app

Folded(p) ==
    LET id == fold(p.records)
        known == id \in DOMAIN p.records
    IN [state |-> IF known THEN p.records[id].state ELSE "idle",
        kind |-> IF known THEN p.records[id].kind ELSE "",
        app |-> IF known THEN programApp(p.records, id) ELSE NoApp,
        seq |-> p.occurrence]

-----------------------------------------------------------------------------
(* What changes it: an accepted report c = [event, id, rec, seq], a prompt *)
(* (OSC 133 A), the exit of the process, RIS.                              *)

NoPrograms ==
    [records |-> [i \in {} |-> NoRecord], shown |-> Shown([i \in {} |-> NoRecord]),
     seq |-> 0, occurrence |-> 0, reported |-> FALSE, exited |-> FALSE]

Recorded(p, c) ==
    CASE c.event = "report" /\ c.rec.state = "clear" -> clear(p.records, c.id)
      [] c.event = "report" /\ c.rec.state # "clear" -> store(p.records, c.id, c.rec, c.seq)
      [] c.event = "prompt" -> dropUnfinished(p.records)
      [] c.event = "reset" -> Drop(p.records, DOMAIN p.records)
      [] OTHER -> p.records
\* Mutant of apply: the records a report writes after the exit stay.
applyAfterExit(p, c) ==
    LET exited == p.exited \/ c.event = "exit"
        recs == IF c.event = "exit" THEN dropUnfinished(Recorded(p, c)) ELSE Recorded(p, c)
        changed == c.event = "report" /\ (c.rec.state = "clear" \/ Changes(p.records, c.id, c.rec))
    IN [p EXCEPT !.records = recs, !.exited = exited, !.shown = Shown(recs),
                 !.seq = IF c.event = "report" THEN c.seq ELSE @,
                 !.reported = IF c.event = "report" THEN TRUE ELSE @ /\ c.event # "reset",
                 !.occurrence = IF changed /\ Shown(recs) # p.shown THEN c.seq ELSE @]
apply(p, c) ==
    LET exited == p.exited \/ c.event = "exit"
        recs == IF exited THEN dropUnfinished(Recorded(p, c)) ELSE Recorded(p, c)
        changed == c.event = "report" /\ (c.rec.state = "clear" \/ Changes(p.records, c.id, c.rec))
    IN [p EXCEPT !.records = recs, !.exited = exited, !.shown = Shown(recs),
                 !.seq = IF c.event = "report" THEN c.seq ELSE @,
                 !.reported = IF c.event = "report" THEN TRUE ELSE @ /\ c.event # "reset",
                 !.occurrence = IF changed /\ Shown(recs) # p.shown THEN c.seq ELSE @]

Event(kind) == [event |-> kind, id |-> Root, rec |-> NoRecord, seq |-> 0]

-----------------------------------------------------------------------------
(* Reading a report: pairs [key, value, form], where form says what is     *)
(* wrong with a pair, if anything: "bare" has no '=', "odd" a value        *)
(* outside the value set, "long" and "garbled" break a limit or an         *)
(* encoding that discards the whole report.                                *)

Discards(pair) == pair.form \in {"long", "garbled"}
Reads(pair) == pair.form = "fine" \/ (pair.key = "id" /\ pair.form = "odd")
LastOf(pairs, key) ==
    LET given == SelectSeq(pairs, LAMBDA p : Reads(p) /\ p.key = key)
    IN IF given = <<>> THEN [key |-> key, value |-> "", form |-> "absent"] ELSE given[Len(given)]
NoReport == [ok |-> FALSE, id |-> Root, rec |-> NoRecord]
parseProgramReport(pairs) ==
    LET id == LastOf(pairs, "id")
        state == LastOf(pairs, "state").value
        kind == LastOf(pairs, "kind").value
        app == LastOf(pairs, "app").value
    IN IF (\E i \in DOMAIN pairs : Discards(pairs[i])) \/ id.form = "odd"
          \/ state \notin ProgramStates \cup {"clear"}
       THEN NoReport
       ELSE [ok |-> TRUE, id |-> IF id.form = "absent" THEN Root ELSE id.value,
             rec |-> [NoRecord EXCEPT !.state = state,
                        !.kind = IF state = "blocked" /\ kind \in ProgramKinds THEN kind ELSE "",
                        !.app = IF app \in Apps THEN app ELSE NoApp]]
=============================================================================
