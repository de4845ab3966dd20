------------------------------ MODULE VtParser ------------------------------
(***************************************************************************)
(* The byte parser of src/vt: the VT500 state machine with its transition  *)
(* table, UTF-8 assembly in the ground state, the parameter array with its *)
(* groups, and the bounded OSC and DCS buffers.  It survives between reads *)
(* of the PTY, so one byte is one step and a sequence may stop anywhere.   *)
(*                                                                         *)
(* The record vt is vt.ParserState with its fields; vt.did lists what the  *)
(* last byte made the screen do (a put, a control, a dispatch with what    *)
(* the handler would read), in order.                                      *)
(***************************************************************************)
EXTENDS Integers, Sequences
LOCAL INSTANCE SequencesExt

CONSTANTS
    MaxParams,     \* parameter slots (maxParams, 32)
    MaxSub,        \* values a group is read with (8)
    MaxArg,        \* largest parameter (maxCSIArgValue, 65535)
    MaxInterm,     \* intermediates kept (2)
    MaxOSCLen,     \* bytes of an OSC payload (4096)
    MaxDCSLen,     \* bytes of DCS data (256)
    MaxOscId       \* bound of an OSC number (2^31)

ASSUME ParserAssumption ==
    /\ MaxParams \in Nat \ {0} /\ MaxSub \in Nat \ {0} /\ MaxArg \in Nat
    /\ MaxInterm \in Nat /\ MaxOSCLen \in Nat /\ MaxDCSLen \in Nat /\ MaxOscId \in Nat

VARIABLE vt

-----------------------------------------------------------------------------
(* The transition table, a row of the table per state.                     *)

Go(act, next) == [act |-> act, next |-> next]
CAN == \H18
SUB == \H1A
ESC == \H1B
Cancels(b) == b \in {CAN, SUB}
C0 == (0 .. \H17) \cup {\H19} \cup (\H1C .. \H1F)
Intermediates == \H20 .. \H2F
Digits == \H30 .. \H39
Colon == \H3A
Semicolon == \H3B
Markers == \H3C .. \H3F
Finals == \H40 .. \H7E
StringOpeners == {\H58, \H5E, \H5F}

buildEscape(b) ==
    CASE b \in C0 -> Go("execute", "escape")
      [] b \in Intermediates -> Go("collect", "escapeIntermediate")
      [] b = \H5B -> Go("none", "csiEntry")
      [] b = \H5D -> Go("none", "oscString")
      [] b = \H50 -> Go("none", "dcsEntry")
      [] b \in StringOpeners -> Go("none", "sosPmApcString")
      [] b \in (\H30 .. \H7E) \ ({\H5B, \H5D, \H50} \cup StringOpeners) -> Go("escDispatch", "ground")
      [] OTHER -> Go("none", "escape")
buildEscapeIntermediate(b) ==
    CASE b \in C0 -> Go("execute", "escapeIntermediate")
      [] b \in Intermediates -> Go("collect", "escapeIntermediate")
      [] b \in \H30 .. \H7E -> Go("escDispatch", "ground")
      [] OTHER -> Go("none", "escapeIntermediate")
buildCsiEntry(b) ==
    CASE b \in C0 -> Go("execute", "csiEntry")
      [] b \in Intermediates -> Go("collect", "csiIntermediate")
      [] b \in Digits \cup {Semicolon} -> Go("param", "csiParam")
      [] b = Colon -> Go("subparam", "csiParam")
      [] b \in Markers -> Go("marker", "csiParam")
      [] b \in Finals -> Go("csiDispatch", "ground")
      [] OTHER -> Go("none", "csiEntry")
buildCsiParam(b) ==
    CASE b \in C0 -> Go("execute", "csiParam")
      [] b \in Intermediates -> Go("collect", "csiIntermediate")
      [] b \in Digits \cup {Semicolon} -> Go("param", "csiParam")
      [] b = Colon -> Go("subparam", "csiParam")
      [] b \in Markers -> Go("none", "csiIgnore")
      [] b \in Finals -> Go("csiDispatch", "ground")
      [] OTHER -> Go("none", "csiParam")
buildCsiIntermediate(b) ==
    CASE b \in C0 -> Go("execute", "csiIntermediate")
      [] b \in Intermediates -> Go("collect", "csiIntermediate")
      [] b \in \H30 .. \H3F -> Go("none", "csiIgnore")
      [] b \in Finals -> Go("csiDispatch", "ground")
      [] OTHER -> Go("none", "csiIntermediate")
buildCsiIgnore(b) ==
    CASE b \in C0 -> Go("execute", "csiIgnore")
      [] b \in Finals -> Go("none", "ground")
      [] OTHER -> Go("none", "csiIgnore")
buildDcsEntry(b) ==
    CASE b \in Intermediates -> Go("collect", "dcsIntermediate")
      [] b \in Digits \cup {Semicolon} -> Go("param", "dcsParam")
      [] b = Colon -> Go("subparam", "dcsParam")
      [] b \in Markers -> Go("marker", "dcsParam")
      [] b \in Finals -> Go("none", "dcsPassthrough")
      [] OTHER -> Go("none", "dcsEntry")
buildDcsParam(b) ==
    CASE b \in Intermediates -> Go("collect", "dcsIntermediate")
      [] b \in Digits \cup {Semicolon} -> Go("param", "dcsParam")
      [] b = Colon -> Go("subparam", "dcsParam")
      [] b \in Markers -> Go("none", "dcsIgnore")
      [] b \in Finals -> Go("none", "dcsPassthrough")
      [] OTHER -> Go("none", "dcsParam")
buildDcsIntermediate(b) ==
    CASE b \in Intermediates -> Go("collect", "dcsIntermediate")
      [] b \in \H30 .. \H3F -> Go("none", "dcsIgnore")
      [] b \in Finals -> Go("none", "dcsPassthrough")
      [] OTHER -> Go("none", "dcsIntermediate")
buildDcsPassthrough(b) == Go(IF b = \H7F THEN "none" ELSE "put", "dcsPassthrough")
buildOscString(b) ==
    IF b = 7 THEN Go("none", "ground") ELSE Go("oscPut", "oscString")

TableRow(state, b) ==
    CASE state = "ground" -> Go(IF b \in C0 THEN "execute" ELSE "print", "ground")
      [] state = "escape" -> buildEscape(b)
      [] state = "escapeIntermediate" -> buildEscapeIntermediate(b)
      [] state = "csiEntry" -> buildCsiEntry(b)
      [] state = "csiParam" -> buildCsiParam(b)
      [] state = "csiIntermediate" -> buildCsiIntermediate(b)
      [] state = "csiIgnore" -> buildCsiIgnore(b)
      [] state = "dcsEntry" -> buildDcsEntry(b)
      [] state = "dcsParam" -> buildDcsParam(b)
      [] state = "dcsIntermediate" -> buildDcsIntermediate(b)
      [] state = "dcsPassthrough" -> buildDcsPassthrough(b)
      [] state = "oscString" -> buildOscString(b)
      [] OTHER -> Go("none", state)

(* The transitions from anywhere.  A C1 byte is one only where it cannot   *)
(* be part of a UTF-8 rune: not in the ground state, not in a string.      *)
StringStates == {"dcsPassthrough", "dcsIgnore", "oscString", "sosPmApcString"}
C1Next(b) ==
    CASE b = \H90 -> Go("none", "dcsEntry")
      [] b = \H9B -> Go("none", "csiEntry")
      [] b = \H9C -> Go("none", "ground")
      [] b = \H9D -> Go("none", "oscString")
      [] b \in {\H98, \H9E, \H9F} -> Go("none", "sosPmApcString")
      [] OTHER -> Go("execute", "ground")
Transition(state, b) ==
    CASE Cancels(b) -> Go("execute", "ground")
      [] b = ESC -> Go("none", "escape")
      [] b \in \H80 .. \H9F /\ state \notin StringStates \cup {"ground"} -> C1Next(b)
      [] OTHER -> TableRow(state, b)

entryAction(state) ==
    CASE state \in {"escape", "csiEntry", "dcsEntry"} -> "clear"
      [] state = "oscString" -> "oscStart"
      [] state = "dcsPassthrough" -> "hook"
      [] OTHER -> "none"
exitAction(state) ==
    CASE state = "oscString" -> "oscEnd"
      [] state = "dcsPassthrough" -> "unhook"
      [] OTHER -> "none"

-----------------------------------------------------------------------------
(* Runes.  A lead byte opens a rune of rune.len bytes; what does not decode *)
(* is put as one replacement character.                                    *)

Replacement == 65533
NoRune == [len |-> 0, got |-> <<>>]
does(p, effect) == [p EXCEPT !.did = Append(@, effect)]
put(p, r) == does(p, <<"put", r>>)

decodeUTF8Bytes(bytes) ==
    LET n == Len(bytes)
        lead == bytes[1] % (CASE n = 2 -> 32 [] n = 3 -> 16 [] n = 4 -> 8)
        r == FoldLeft(LAMBDA v, b : v * 64 + (b % 64), lead, Tail(bytes))
        least == CASE n = 2 -> \H80 [] n = 3 -> \H800 [] n = 4 -> \H10000
    IN IF r < least \/ r > \H10FFFF \/ r \in \HD800 .. \HDFFF \/ r = \HFFFF
       THEN Replacement ELSE r

handlePrint(p, b) ==
    LET Opens(n) == [p EXCEPT !.rune = [len |-> n, got |-> <<b>>]]
    IN CASE b < \H80 -> put(p, b)
         [] b \in \HC0 .. \HDF -> Opens(2)
         [] b \in \HE0 .. \HEF -> Opens(3)
         [] b \in \HF0 .. \HF7 -> Opens(4)
         [] OTHER -> put(p, Replacement)

-----------------------------------------------------------------------------
(* Parameters.  The values lie in one array; groupLen[i] is the number of  *)
(* values of the group that starts at i, and keeps what earlier sequences  *)
(* left wherever no group of this one starts.                              *)

parserClear(p) ==
    [p EXCEPT !.params = <<>>, !.groups = 1, !.groupLen[0] = 0, !.arg = 0,
              !.interm = <<>>, !.ignoring = FALSE, !.marker = 0]

groupStartIdx(p, g) ==
    FoldLeft(LAMBDA at, i : at + p.groupLen[at], 0, [i \in 1 .. g |-> i])

storeParam(p) ==
    LET open == groupStartIdx(p, p.groups - 1)
    IN [p EXCEPT !.params = Append(@, p.arg), !.groupLen[open] = @ + 1]
pushParam(p, newGroup) ==
    IF Len(p.params) >= MaxParams THEN [p EXCEPT !.ignoring = TRUE]
    ELSE LET q == [storeParam(p) EXCEPT !.arg = 0]
         IN IF newGroup /\ Len(q.params) < MaxParams
            THEN [q EXCEPT !.groupLen[Len(q.params)] = 0, !.groups = @ + 1] ELSE q
\* Mutant of finalizeParams: an empty last parameter is not stored.
finalizeParamsGiven(p) ==
    IF p.ignoring \/ Len(p.params) >= MaxParams \/ p.arg = 0 THEN p ELSE storeParam(p)
finalizeParams(p) ==
    IF p.ignoring \/ Len(p.params) >= MaxParams THEN p ELSE storeParam(p)

handleParam(p, b) ==
    CASE p.ignoring -> p
      [] ~ p.ignoring /\ b = Semicolon -> pushParam(p, TRUE)
      [] ~ p.ignoring /\ b # Semicolon ->
            LET v == p.arg * 10 + b - \H30
            IN [p EXCEPT !.arg = IF v < MaxArg THEN v ELSE MaxArg]
handleSubparam(p) == IF p.ignoring THEN p ELSE pushParam(p, FALSE)

(* What a handler reads: the groups, each cut at MaxSub values.            *)
paramGroup(p, i) ==
    LET at == groupStartIdx(p, i - 1)
        n == IF p.groupLen[at] < MaxSub THEN p.groupLen[at] ELSE MaxSub
    IN SubSeq(p.params, at + 1, at + n)
groupsRead(p) == [i \in 1 .. p.groups |-> paramGroup(p, i)]

-----------------------------------------------------------------------------
(* Strings.                                                                *)

(* The OSC number: nothing before the first ';' is 0, any other field must *)
(* be a plain number below MaxOscId; -1 runs nothing.                      *)
oscField(buf) ==
    LET stops == {i \in 1 .. Len(buf) : buf[i] = Semicolon}
    IN IF stops = {} THEN buf
       ELSE SubSeq(buf, 1, (CHOOSE i \in stops : \A j \in stops : i <= j) - 1)
oscId(buf) ==
    LET cmd == oscField(buf)
        n == FoldLeft(LAMBDA v, b : IF v < 0 \/ b \notin Digits THEN -1
                                    ELSE v * 10 + b - \H30, 0, cmd)
    IN IF cmd = <<>> THEN (IF buf = <<>> THEN -1 ELSE 0)
       ELSE IF n >= MaxOscId THEN -1 ELSE n
dispatchOsc(p) ==
    LET q == [p EXCEPT !.osc = <<>>]
    IN IF p.oscOverflow \/ oscId(p.osc) < 0 THEN q
       ELSE does(q, <<"osc", oscId(p.osc), SubSeq(p.osc, Len(oscField(p.osc)) + 2, Len(p.osc))>>)

dcsHook(p, final) ==
    LET fn == CASE p.interm = <<\H24>> /\ final = \H71 -> "decrqss"
                [] p.interm = <<\H2B>> /\ final = \H71 -> "xtgettcap"
                [] OTHER -> "ignored"
    IN [p EXCEPT !.dcsFunc = fn, !.dcsOverflow = FALSE, !.dcs = IF fn = "ignored" THEN @ ELSE <<>>]
dcsPut(p, b) ==
    CASE p.dcsFunc \notin {"decrqss", "xtgettcap"} -> p
      [] p.dcsFunc \in {"decrqss", "xtgettcap"} /\ Len(p.dcs) < MaxDCSLen ->
            [p EXCEPT !.dcs = Append(@, b)]
      [] p.dcsFunc \in {"decrqss", "xtgettcap"} /\ Len(p.dcs) >= MaxDCSLen ->
            [p EXCEPT !.dcsOverflow = TRUE]
dcsUnhook(p) ==
    LET q == IF ~ p.dcsOverflow /\ p.dcsFunc \in {"decrqss", "xtgettcap"}
             THEN does(p, <<p.dcsFunc, p.dcs>>) ELSE p
    IN [q EXCEPT !.dcsFunc = "none"]

-----------------------------------------------------------------------------
(* One byte.                                                               *)

doAction(p, act, b) ==
    CASE act = "print" -> handlePrint(p, b)
      [] act = "execute" -> does(p, <<"execute", b>>)
      [] act = "clear" -> parserClear(p)
      [] act = "collect" -> IF Len(p.interm) < MaxInterm THEN [p EXCEPT !.interm = Append(@, b)] ELSE p
      [] act = "param" -> handleParam(p, b)
      [] act = "subparam" -> handleSubparam(p)
      [] act = "marker" -> [p EXCEPT !.marker = b]
      [] act = "escDispatch" -> does(p, <<"esc", p.interm, b>>)
      [] act = "csiDispatch" ->
            LET q == finalizeParams(p)
            IN does(q, <<"csi", q.marker, q.interm, groupsRead(q), b>>)
      [] act = "hook" -> dcsHook(finalizeParams(p), b)
      [] act = "put" -> dcsPut(p, b)
      [] act = "unhook" -> dcsUnhook(p)
      [] act = "oscStart" -> [p EXCEPT !.osc = <<>>, !.oscOverflow = FALSE]
      [] act = "oscPut" -> IF Len(p.osc) < MaxOSCLen THEN [p EXCEPT !.osc = Append(@, b)]
                           ELSE [p EXCEPT !.oscOverflow = TRUE]
      [] act = "oscEnd" -> dispatchOsc(p)
      [] act = "none" -> p

(* Leaving a state runs its exit action, except on CAN and SUB.            *)
step(p, b) ==
    LET t == Transition(p.state, b)
        a == IF t.next # p.state /\ ~ Cancels(b) THEN doAction(p, exitAction(p.state), b) ELSE p
        c == doAction(a, t.act, b)
    IN IF t.next = p.state THEN c
       ELSE doAction([c EXCEPT !.state = t.next], entryAction(t.next), b)

(* A rune under way takes continuation bytes; anything else ends it as one *)
(* replacement character and is then read as if it stood alone.            *)
feed(p, b) ==
    LET got == Append(p.rune.got, b)
    IN CASE p.rune = NoRune -> step(p, b)
         [] p.rune # NoRune /\ b \notin \H80 .. \HBF ->
                step(put([p EXCEPT !.rune = NoRune], Replacement), b)
         [] p.rune # NoRune /\ b \in \H80 .. \HBF /\ Len(got) < p.rune.len ->
                [p EXCEPT !.rune.got = got]
         [] p.rune # NoRune /\ b \in \H80 .. \HBF /\ Len(got) = p.rune.len ->
                put([p EXCEPT !.rune = NoRune], decodeUTF8Bytes(got))

Fresh ==
    [state |-> "ground", rune |-> NoRune, params |-> <<>>, groups |-> 0, arg |-> 0,
     groupLen |-> [i \in 0 .. MaxParams - 1 |-> 0], interm |-> <<>>, marker |-> 0,
     ignoring |-> FALSE, osc |-> <<>>, oscOverflow |-> FALSE, dcs |-> <<>>,
     dcsOverflow |-> FALSE, dcsFunc |-> "none", did |-> <<>>]

ParserInit == vt = Fresh
Byte(b) == vt' = feed([vt EXCEPT !.did = <<>>], b)
=============================================================================
