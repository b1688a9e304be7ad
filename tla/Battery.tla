------------------------------ MODULE Battery -------------------------------
(***************************************************************************)
(* The battery label of the 1.75" display (ui.c of amoled_co5300_175) and  *)
(* the reading it paints (axp2101.c).  To spare the panel the label is     *)
(* painted only when something visible has changed since it was painted.   *)
(***************************************************************************)
EXTENDS Integers

CONSTANTS Levels  \* charge levels the chip may report, in percent

VARIABLES
  pack,     \* the battery and the plug, as they are
  reading,  \* s_battery
  valid,    \* s_battery_valid: was there ever a good reading?
  shown,    \* s_batt_shown_*: what the label was painted for
  label     \* the label

Status == [present : BOOLEAN, percent : Levels \cup {-1}, charging : BOOLEAN,
           vbus : BOOLEAN]
Glyphs == {"charge", "full", "3", "2", "1", "empty"}
Labels == [visible : BOOLEAN, glyph : Glyphs, tint : {"green", "red", "grey"},
           percent : 0..100]
Shown  == [set : BOOLEAN, visible : BOOLEAN, percent : 0..100,
           charging : BOOLEAN, vbus : BOOLEAN]

TypeOK == /\ pack \in Status
          /\ reading \in Status
          /\ valid \in BOOLEAN
          /\ shown \in Shown
          /\ label \in Labels

NoReading == [present |-> FALSE, percent |-> -1, charging |-> FALSE, vbus |-> FALSE]
Hidden    == [visible |-> FALSE, glyph |-> "empty", tint |-> "grey", percent |-> 0]
NeverShown == [set |-> FALSE, visible |-> FALSE, percent |-> 0,
               charging |-> FALSE, vbus |-> FALSE]

\* Without a pack the chip reports no percentage.
Packs == {p \in Status : p.present <=> p.percent # -1}

Init == /\ pack \in Packs
        /\ reading = NoReading /\ valid = FALSE
        /\ shown = NeverShown /\ label = Hidden

Reset == /\ reading' = NoReading /\ valid' = FALSE
         /\ shown' = NeverShown /\ label' = Hidden
         /\ UNCHANGED pack

\* Somebody plugs, unplugs, drains or charges.
Change(p) == pack' = p /\ UNCHANGED <<reading, valid, shown, label>>

\* axp2101_read and sample_battery: a transfer that fails leaves all as it was.
Sampled(ok) == /\ reading' = IF ok THEN pack ELSE reading
               /\ valid' = (valid \/ ok)

\* display_profile_init
Boot(ok) == Sampled(ok) /\ UNCHANGED <<pack, shown, label>>

\* apply_battery_locked
Glyph(b) == IF b.charging THEN "charge"
            ELSE IF b.percent >= 88 THEN "full"
            ELSE IF b.percent >= 63 THEN "3"
            ELSE IF b.percent >= 38 THEN "2"
            ELSE IF b.percent >= 13 THEN "1" ELSE "empty"
Tint(b) == IF b.charging THEN "green" ELSE IF b.percent < 15 THEN "red" ELSE "grey"
Clamped(n) == IF n < 0 THEN 0 ELSE n
LabelFor(b, v) ==
  IF v /\ b.present THEN [visible |-> TRUE, glyph |-> Glyph(b), tint |-> Tint(b),
                          percent |-> b.percent]
  ELSE [label EXCEPT !.visible = FALSE]
Appearance(b, v) ==
  [set |-> TRUE, visible |-> v /\ b.present, percent |-> Clamped(b.percent),
   charging |-> b.charging, vbus |-> b.vbus]

\* Mutant of Unchanged: the charger is forgotten.
UnchangedByLevel(now) ==
  /\ shown.set /\ now.visible = shown.visible
  /\ ~now.visible \/ now.percent = shown.percent

\* While hidden only the visibility matters.
Unchanged(now) ==
  /\ shown.set /\ now.visible = shown.visible
  /\ ~now.visible \/ now = shown

Applied == LET now == Appearance(reading', valid')
           IN  IF Unchanged(now) THEN UNCHANGED <<shown, label>>
               ELSE shown' = now /\ label' = LabelFor(reading', valid')

\* A tick samples and paints; showing an agent only paints.
Tick(ok) == Sampled(ok) /\ Applied /\ UNCHANGED pack
Show     == Sampled(FALSE) /\ Applied /\ UNCHANGED pack

\* The label is what the last good reading calls for, whenever it was painted
\* on account of it: the gate never keeps a stale glyph, tint or number.
LabelCurrent ==
  shown.set =>
    /\ label.visible = (valid /\ reading.present)
    /\ label.visible => label = LabelFor(reading, valid)
=============================================================================
