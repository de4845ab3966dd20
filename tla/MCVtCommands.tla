----------------------------- MODULE MCVtCommands -----------------------------
(***************************************************************************)
(* VtCommands and VtSgr written to by any program that keeps to one topic, *)
(* beside a record of what a reader of the stream would expect by now: the *)
(* statuses reported and not taken back, the titles saved, the colours and *)
(* the text given, and what the consumer has been handed.                  *)
(***************************************************************************)
EXTENDS VtCommands, VtSgr
LOCAL INSTANCE SequencesExt

CONSTANT PushBound   \* bound: titles a program has saved at a time

VARIABLES
    topic,    \* what the program writes about
    heard,    \* the last report of each id that nothing has taken back
    saved,    \* the titles saved, newest last
    painted,  \* the palette the screen was last painted with
    browser   \* the text last handed to the browser's clipboard

told == <<topic, heard, saved, painted, browser>>
cvars == <<term, style, told>>

MCIds == {<<>>, <<"a">>, <<"a", "b">>, <<"c">>}
MCApps == {"x"}

Pair(key, value, form) == [key |-> key, value |-> value, form |-> form]
Reports ==
    {<<Pair("state", s, "fine"), Pair("kind", k, "fine"), Pair("id", i, "fine")>> :
        s \in {"working", "blocked", "done", "clear"}, k \in {"auth", "none"}, i \in MCIds}
    \cup {<<Pair("state", "blocked", "fine"), Pair("state", "idle", "fine"), Pair("app", "x", "fine")>>,
          <<Pair("state", "done", "fine"), Pair("id", Root, "odd")>>,
          <<Pair("state", "odd", "odd"), Pair("id", <<"a">>, "fine")>>,
          <<Pair("state", "error", "fine"), Pair("app", "x", "long")>>}

CommandsIdle == CommandsInit /\ StyleInit /\ topic = "none" /\ heard = [i \in {} |-> Nothing]
                /\ saved = <<>> /\ painted = term.colours.palette /\ browser = Nothing
Topics == {"records", "notes", "titles", "colours", "pen"}
MCCommandsInit ==
    /\ CommandsInit /\ StyleInit /\ topic \in Topics /\ heard = [i \in {} |-> Nothing]
    /\ saved = <<>> /\ painted = term.colours.palette /\ browser = Nothing

-----------------------------------------------------------------------------
Forgotten(h, gone) == [i \in DOMAIN h \ gone |-> h[i]]
Working(h) == {i \in DOMAIN h : h[i].state \in Unfinished}
Heard(pairs) ==
    LET r == parseProgramReport(pairs)
    IN CASE ~ r.ok -> heard
         [] r.ok /\ r.rec.state = "clear" -> Forgotten(heard, {i \in DOMAIN heard : Under(i, r.id)})
         [] r.ok /\ r.rec.state # "clear" ->
                LET all == [i \in DOMAIN heard \cup {r.id} |->
                             IF i = r.id THEN [state |-> r.rec.state, since |-> {}]
                             ELSE [heard[i] EXCEPT !.since = @ \cup {r.id}]]
                IN IF term.program.exited THEN Forgotten(all, Working(all)) ELSE all

Records ==
    /\ topic = "records" /\ UNCHANGED <<style, topic, saved, painted, browser>>
    /\ \/ \E pairs \in Reports : handleOsc7501(pairs) /\ heard' = Heard(pairs)
       \/ (Prompt \/ Exited) /\ heard' = Forgotten(heard, Working(heard))
       \/ HardReset /\ heard' = [i \in {} |-> Nothing]
Notes ==
    /\ topic = "notes" /\ UNCHANGED <<style, topic, saved, painted, browser>>
    /\ \/ \E text \in Texts \cup {Nothing} : Notify(text) /\ UNCHANGED heard
       \/ \E st \in {NoFields, 0, 1, 2, 3, 5}, form \in {"absent", "bad", "number"}, n \in {-1, 100, 101} :
            Progress(st, [form |-> form, n |-> n]) /\ UNCHANGED heard
       \/ LET pairs == <<Pair("state", "working", "fine")>>
          IN handleOsc7501(pairs) /\ heard' = Heard(pairs)
TitlesSaved ==
    /\ topic = "titles" /\ UNCHANGED <<style, topic, heard, painted, browser>>
    /\ \/ \E which \in 0 .. 2, title \in Titles : SetTitle(which, title) /\ saved' = saved
       \/ /\ PushTitle /\ Len(saved) < PushBound
          /\ saved' = Append(saved, [icon |-> term.iconTitle, window |-> term.Title])
       \/ \E which \in 0 .. 2 :
            PopTitle(which) /\ saved' = IF saved = <<>> THEN saved ELSE Front(saved)
ColoursAndText ==
    /\ topic = "colours" /\ UNCHANGED <<style, topic, heard, saved>>
    /\ \/ /\ UNCHANGED <<painted, browser>>
          /\ \/ \E i \in {0, 1}, x \in {"red", "?", "bad"} :
                  Palette(<<[table |-> "palette", index |-> i, colour |-> x],
                            [table |-> "special", index |-> 256, colour |-> "blue"]>>)
             \/ \E listed \in SUBSET {0, 1} : PaletteReset(listed)
             \/ SpecialReset({256})
             \/ \E x \in {"red", "?"} : DynamicColours(LastSlot - 1, <<x, "?", "red">>)
             \/ DynamicReset(LastSlot)
             \/ \E text \in Texts \cup {"?", Nothing}, allow \in BOOLEAN : Clipboard(text, allow)
       \/ /\ Take
          /\ painted' = IF term.paletteChanged THEN term.colours.palette ELSE painted
          /\ browser' = IF term.pendingClipboard = Nothing THEN browser ELSE term.pendingClipboard
    /\ Len(term.response) = 0 \/ term'.response = <<>>
Groups ==
    {<< <<p>> >> : p \in {0, 1, 4, 21, 22, 24, 37, 53, 90, 49}}
    \cup {<< <<4, 2>> >>, << <<4, 3>> >>, << <<4, 0>> >>, << <<38>>, <<5>>, <<300>> >>,
          << <<48>>, <<2>>, <<1>>, <<2>>, <<3>>, <<1>> >>, << <<48>>, <<2>>, <<1>> >>, << <<38>> >>,
          << <<58, 2, 0, 7, 8, 9>> >>, << <<58, 5, 9>> >>, << <<48, 2, 7, 8>> >>, << <<38>>, <<9>>, <<1>> >>}
Pen ==
    /\ topic = "pen" /\ UNCHANGED <<term, told>>
    /\ \E groups \in Groups : Sgr(groups)

MCCommandsNext == Records \/ Notes \/ TitlesSaved \/ ColoursAndText \/ Pen

-----------------------------------------------------------------------------
(* The table holds what was reported last under each id and not taken back *)
(* by a clear above it, a prompt, the exit or a reset; what it has lost    *)
(* was pushed out by a full table of reports under other ids that came     *)
(* after; and nothing an exited process left is working or waiting         *)
(* (programStatus.apply, store, clear, evict, dropUnfinished).             *)
RecordsAreTheLast ==
    LET recs == term.program.records
    IN /\ RecordsSound
       /\ \A i \in DOMAIN recs : i \in DOMAIN heard /\ recs[i].state = heard[i].state
       /\ \A i \in DOMAIN heard \ DOMAIN recs : Cardinality(heard[i].since) >= MaxRecords

(* Whatever else is pending, the palette on the screen is the one the      *)
(* queries answer with, and the browser holds or is about to get the last  *)
(* text set (handleOscPaletteReset, handleOsc52, TakePaletteChanged,       *)
(* TakeClipboard); and the saved titles come back newest first, the oldest *)
(* lost beyond the depth of the stack (pushTitle, popTitle).               *)
TakesAreCurrent ==
    /\ term.paletteChanged \/ painted = term.colours.palette
    /\ term.selection \in {Nothing, IF term.pendingClipboard = Nothing THEN browser
                                    ELSE term.pendingClipboard}
    /\ IsSuffix(term.titleStack, saved)
=============================================================================
