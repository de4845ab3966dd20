-------------------------------- MODULE VtSgr --------------------------------
(***************************************************************************)
(* SGR of src/vt/sgr.go: how a control sequence's parameter groups change  *)
(* the pen, and the parameters DECRQSS answers with, which an application  *)
(* writes back later to have its pen again.                                *)
(*                                                                         *)
(* A style is the set of its attributes and three colours; a colour is     *)
(* <<>> (default), <<1, n>> (the sixteen), <<2, n>> (256) or               *)
(* <<3, r, g, b>>, as Color.Type numbers them.                             *)
(***************************************************************************)
EXTENDS Integers, Sequences, TLC
LOCAL INSTANCE SequencesExt

VARIABLE style

NoColor == <<>>
Plain == [attrs |-> {}, FG |-> NoColor, BG |-> NoColor, UnderlineColor |-> NoColor]

(* Parameters that only turn attributes on or off.                         *)
Sets == (1 :> {"bold"}) @@ (2 :> {"dim"}) @@ (3 :> {"italic"}) @@ (4 :> {"underline"})
        @@ (5 :> {"blink"}) @@ (6 :> {"blink"}) @@ (7 :> {"inverse"}) @@ (8 :> {"hidden"})
        @@ (9 :> {"strikethrough"}) @@ (21 :> {"double"}) @@ (53 :> {"overline"})
Unsets == (21 :> {"underline"}) @@ (22 :> {"bold", "dim"}) @@ (23 :> {"italic"})
          @@ (24 :> {"underline", "double"}) @@ (25 :> {"blink"}) @@ (27 :> {"inverse"})
          @@ (28 :> {"hidden"}) @@ (29 :> {"strikethrough"}) @@ (55 :> {"overline"})
Flags(table, p) == IF p \in DOMAIN table THEN table[p] ELSE {}

(* 4:0 none, 4:2 double, any other style a single underline.               *)
underlineStyle(st, x) ==
    [st EXCEPT !.attrs = (@ \ {"underline", "double"}) \cup
                         (CASE x = 0 -> {} [] x = 2 -> {"double"} [] OTHER -> {"underline"})]

clampByte(v) == IF v > 255 THEN 255 ELSE v
Slots == (38 :> "FG") @@ (48 :> "BG") @@ (58 :> "UnderlineColor")

(* 38:5:N, 38:2:R:G:B, or with a colour space before the channels.         *)
Rgb(r, g, b) == <<3, clampByte(r), clampByte(g), clampByte(b)>>
parseExtColorColon(g, was) ==
    CASE g[2] = 5 -> <<2, clampByte(g[3])>>
      [] g[2] = 2 /\ Len(g) >= 6 -> Rgb(g[4], g[5], g[6])
      [] g[2] = 2 /\ Len(g) = 5 -> Rgb(g[3], g[4], g[5])
      [] g[2] = 2 /\ Len(g) = 4 -> Rgb(g[3], g[4], 0)
      [] OTHER -> was

(* 38;5;N and 38;2;R;G;B: the colour and how many groups it takes.  What   *)
(* is cut short takes the mode only.                                       *)
parseExtColorLegacy(groups, i, was) ==
    LET left == Len(groups) - i
        At(k) == groups[i + k][1]
    IN CASE left = 0 -> [color |-> was, taken |-> 0]
         [] left > 0 /\ At(1) = 5 /\ left >= 2 -> [color |-> <<2, clampByte(At(2))>>, taken |-> 2]
         [] left > 0 /\ At(1) = 2 /\ left >= 4 -> [color |-> Rgb(At(2), At(3), At(4)), taken |-> 4]
         [] OTHER -> [color |-> was, taken |-> 1]

Sixteen(p) ==
    CASE p \in 30 .. 37 -> [slot |-> "FG", color |-> <<1, p - 30>>]
      [] p \in 40 .. 47 -> [slot |-> "BG", color |-> <<1, p - 40>>]
      [] p \in 90 .. 97 -> [slot |-> "FG", color |-> <<1, p - 82>>]
      [] p \in 100 .. 107 -> [slot |-> "BG", color |-> <<1, p - 92>>]
      [] p = 39 -> [slot |-> "FG", color |-> NoColor]
      [] p = 49 -> [slot |-> "BG", color |-> NoColor]
      [] p = 59 -> [slot |-> "UnderlineColor", color |-> NoColor]
      [] OTHER -> [slot |-> "FG", color |-> <<-1>>]

(* One group at i; run = [st, skip], skip the groups a colour has taken.   *)
applyGroup(groups, run, i) ==
    LET g == groups[i]
        p == g[1]
    IN CASE run.skip > 0 -> [run EXCEPT !.skip = @ - 1]
         [] run.skip = 0 /\ p = 0 -> [run EXCEPT !.st = Plain]
         [] run.skip = 0 /\ p = 4 /\ Len(g) >= 2 -> [run EXCEPT !.st = underlineStyle(@, g[2])]
         [] run.skip = 0 /\ p \in DOMAIN Slots /\ Len(g) >= 3 ->
                [run EXCEPT !.st[Slots[p]] = parseExtColorColon(g, @)]
         [] run.skip = 0 /\ p \in DOMAIN Slots /\ Len(g) < 3 ->
                LET ext == parseExtColorLegacy(groups, i, run.st[Slots[p]])
                IN [st |-> [run.st EXCEPT ![Slots[p]] = ext.color], skip |-> ext.taken]
         [] OTHER ->
                LET c == Sixteen(p)
                    st == IF c.color = <<-1>> THEN run.st ELSE [run.st EXCEPT ![c.slot] = c.color]
                IN [run EXCEPT !.st = [st EXCEPT !.attrs = (@ \ Flags(Unsets, p)) \cup Flags(Sets, p)]]
applySGR(st, groups) ==
    FoldLeft(LAMBDA run, i : applyGroup(groups, run, i), [st |-> st, skip |-> 0],
             [i \in DOMAIN groups |-> i]).st

-----------------------------------------------------------------------------
(* The answer: a reset, the attributes, the colours, each number a group.  *)

\* Mutant of appendColorParams: the bright eight are written base + n.
appendColorParamsLow(c, base) ==
    CASE c = NoColor -> <<>>
      [] c # NoColor /\ c[1] = 1 -> <<base + c[2]>>
      [] c # NoColor /\ c[1] = 2 -> <<base + 8, 5, c[2]>>
      [] c # NoColor /\ c[1] = 3 -> <<base + 8, 2, c[2], c[3], c[4]>>
appendColorParams(c, base) ==
    CASE c = NoColor -> <<>>
      [] c # NoColor /\ c[1] = 1 -> IF c[2] < 8 THEN <<base + c[2]>> ELSE <<base + 60 + c[2] - 8>>
      [] c # NoColor /\ c[1] = 2 -> <<base + 8, 5, c[2]>>
      [] c # NoColor /\ c[1] = 3 -> <<base + 8, 2, c[2], c[3], c[4]>>
AttrParams(attrs) == SelectSeq(<<1, 2, 3, 4, 21, 5, 7, 8, 9, 53>>, LAMBDA p : Sets[p] \subseteq attrs)
sgrParamsString(st) ==
    LET all == <<0>> \o AttrParams(st.attrs) \o appendColorParams(st.FG, 30)
               \o appendColorParams(st.BG, 40) \o appendColorParams(st.UnderlineColor, 50)
    IN [i \in DOMAIN all |-> <<all[i]>>]

StyleInit == style = Plain
Sgr(groups) == style' = applySGR(style, groups)

-----------------------------------------------------------------------------
(* The pen DECRQSS reports, written back, is the pen (sgrParamsString,     *)
(* sgrSequence), but for one style: SGR 21 followed by SGR 4 sets both     *)
(* underlines, which no sequence of parameters the answer can hold in its  *)
(* fixed order gives back.                                                 *)
StyleReproduced ==
    {"underline", "double"} \subseteq style.attrs
        \/ applySGR(Plain, sgrParamsString(style)) = style
=============================================================================
