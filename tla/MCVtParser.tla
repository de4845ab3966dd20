----------------------------- MODULE MCVtParser -----------------------------
(***************************************************************************)
(* VtParser fed with any bytes of a small alphabet, one of each kind the   *)
(* table tells apart.  Beside the parser runs a record of what was written *)
(* since the present sequence or string began, which the properties parse  *)
(* in their own way.                                                       *)
(***************************************************************************)
EXTENDS VtParser
LOCAL INSTANCE SequencesExt
LOCAL INSTANCE FiniteSets

CONSTANT BodyBound   \* bytes of a sequence's parameters

VARIABLES
    program, \* which bytes are written
    last,    \* the byte just written
    body     \* the parameter or payload bytes since the sequence or string began

mcvars == <<program, vt, last, body>>

(* What is written: control sequences, OSC strings, DCS strings opened by  *)
(* $ or by +, text.                                                        *)
(* 7 is BEL, 10 LF, 24 CAN, 27 ESC; 133 155 156 157 are C1, 169 a          *)
(* continuation byte, 192 195 226 237 240 leads.                           *)
Written ==
    [numbers |-> {27, 91, 24, 10, 36, 49, 58, 59, 63, 113, 155},
     osc     |-> {27, 92, 93, 88, 7, 24, 49, 59, 127, 156, 195},
     dcs     |-> {27, 92, 80, 24, 36, 63, 113, 127},
     caps    |-> {27, 92, 80, 24, 43, 113, 156},
     text    |-> {27, 92, 7, 10, 24, 65, 133, 155, 157, 169, 192, 195, 226, 237, 240}]

Payload(state) == state \in {"oscString", "dcsPassthrough"}
Numbers == Digits \cup {Colon, Semicolon}

MCInit == program \in DOMAIN Written /\ ParserInit /\ last = 0 /\ body = <<>>
MCNext ==
    /\ \E b \in Written[program] :
        /\ Byte(b)
        /\ last' = b /\ UNCHANGED program
        /\ body' = CASE vt'.state # vt.state /\ vt'.state \in {"escape", "csiEntry", "dcsEntry",
                                                             "oscString", "dcsPassthrough"} -> <<>>
                     [] Payload(vt.state) /\ vt'.state = vt.state /\ ~ (vt.state = "dcsPassthrough" /\ b = \H7F) ->
                          IF Len(body) > MaxOSCLen THEN body ELSE Append(body, b)
                     [] vt'.state = "csiParam" /\ b \in Numbers -> Append(body, b)
                     [] vt'.state = "ground" -> <<>>
                     [] OTHER -> body
    /\ Len(body') <= BodyBound
MCSpec == MCInit /\ [][MCNext]_mcvars

Did(kind) == {i \in DOMAIN vt'.did : vt'.did[i][1] = kind}

-----------------------------------------------------------------------------
(* A control sequence is run with the parameters written in it: fields     *)
(* between ';', values between ':', empty ones 0, the first MaxParams      *)
(* values, whatever was executed, broken off or written before             *)
(* (handleParam, handleSubparam, finalizeParams, paramGroup).              *)
AddByte(fields, b) ==
    LET g == Len(fields)
        v == Len(fields[g])
    IN CASE b = Semicolon -> Append(fields, <<0>>)
         [] b = Colon -> [fields EXCEPT ![g] = Append(@, 0)]
         [] OTHER -> [fields EXCEPT ![g][v] =
                        IF @ * 10 + (b - \H30) < MaxArg THEN @ * 10 + (b - \H30) ELSE MaxArg]
Fields(bytes) == FoldLeft(AddByte, << <<0>> >>, bytes)
Kept(fields) ==
    LET Before(g) == FoldLeft(LAMBDA n, f : n + Len(f), 0, SubSeq(fields, 1, g - 1))
        In(g) == {v \in DOMAIN fields[g] : v <= MaxSub /\ Before(g) + v <= MaxParams}
    IN SelectSeq([g \in DOMAIN fields |-> [v \in In(g) |-> fields[g][v]]], LAMBDA f : f # <<>>)
ParamsAreRead ==
    [][\A i \in Did("csi") : vt'.did[i][4] = Kept(Fields(body))]_mcvars

(* A string is answered only when it was ended, and then with every byte   *)
(* of its payload: a cancelled one and one cut at the limit run nothing,   *)
(* and no byte of it, part of a UTF-8 rune or not, reaches the screen      *)
(* (applyAnywhere, feed, dispatchOsc, dcsPut, dcsUnhook).                  *)
StringsWhole ==
    [][/\ \A i \in Did("osc") :
            /\ last' \notin {CAN, SUB} /\ Len(body) <= MaxOSCLen
            /\ vt'.did[i][3] = SubSeq(body, Len(oscField(body)) + 2, Len(body))
       /\ \A i \in Did("decrqss") \cup Did("xtgettcap") :
            /\ last' \notin {CAN, SUB} /\ Len(body) <= MaxDCSLen
            /\ vt'.did[i][2] = body
       /\ (vt.state \in StringStates /\ last' \notin {7, CAN, SUB, ESC}) =>
            (vt'.state = vt.state /\ vt'.did = <<>>)]_mcvars

(* In text no byte is lost and none is read twice: it joins the rune under *)
(* way, completes it to the rune whose shortest encoding the bytes are, or *)
(* stands alone after the broken one was put as a replacement character    *)
(* (feed, handlePrint, decodeUTF8Bytes).                                   *)
Encode(r) ==
    CASE r < \H800 -> <<\HC0 + r \div 64, \H80 + (r % 64)>>
      [] r \in \H800 .. \HFFFF -> <<\HE0 + r \div 4096, \H80 + ((r \div 64) % 64), \H80 + (r % 64)>>
      [] OTHER -> <<\HF0 + r \div 262144, \H80 + ((r \div 4096) % 64),
                    \H80 + ((r \div 64) % 64), \H80 + (r % 64)>>
TextIsAccounted ==
    [][vt.state = "ground" =>
        LET got == Append(vt.rune.got, last')
            puts == Did("put")
            alone == vt'.state # "ground" \/ last' = CAN \/ vt'.rune.got = <<last'>>
                       \/ (vt'.did # <<>> /\ Last(vt'.did) \in
                            {<<"put", last'>>, <<"put", Replacement>>, <<"execute", last'>>})
        IN /\ \A i \in puts : vt'.did[i][2] \in {last', Replacement} \/ Encode(vt'.did[i][2]) = got
           /\ \/ vt'.rune.got = got /\ vt'.did = <<>>
              \/ Len(got) = vt.rune.len /\ Cardinality(puts) = 1 /\ vt'.rune = NoRune
              \/ vt.rune = NoRune /\ alone
              \/ /\ vt.rune # NoRune /\ vt'.did[1] = <<"put", Replacement>> /\ alone
                 /\ Len(vt'.did) = 2 \/ vt'.state # "ground" \/ vt'.rune # NoRune]_mcvars
=============================================================================
