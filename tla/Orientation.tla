---------------------------- MODULE Orientation -----------------------------
(***************************************************************************)
(* The orientation watcher of the AMOLED displays (orientation.c): which   *)
(* way up the picture is, from samples of the accelerometer.  Panel models *)
(* the fade that hides the redrawing.  Time is counted in sample periods.  *)
(***************************************************************************)
EXTENDS Integers

CONSTANTS
  Readings,    \* accelerations in the plane of the panel, pairs in mg
  Hysteresis,  \* HYSTERESIS_MG
  Dominant,    \* DOMINANT_MIN_MG
  Debounce     \* DEBOUNCE_US, in sample periods

VARIABLES
  board,      \* which table maps axes to rotations
  pose,       \* how the device is held
  current,    \* current_axis
  candidate,  \* candidate_axis
  waited,     \* periods since candidate_since_us
  rotation    \* lv_display_set_rotation

Axes == {"X_POS", "X_NEG", "Y_POS", "Y_NEG"}
Boards == {"sh8601", "co5300_175"}
Rotations == {0, 90, 180, 270}

\* s_axis_to_rotation of each board.
Rotation143 == [X_POS |-> 270, X_NEG |-> 90, Y_POS |-> 180, Y_NEG |-> 0]
Rotation175 == [X_POS |-> 0, X_NEG |-> 180, Y_POS |-> 270, Y_NEG |-> 90]
RotationOf(axis) == IF board = "sh8601" THEN Rotation143[axis] ELSE Rotation175[axis]

TypeOK == /\ board \in Boards
          /\ pose \in Readings
          /\ current \in Axes
          /\ candidate \in Axes
          /\ waited \in 0..Debounce
          /\ rotation \in Rotations

\* The drivers boot in the rotation of X_POS.
Init == /\ board \in Boards
        /\ pose \in Readings
        /\ current = "X_POS" /\ candidate = "X_POS" /\ waited = 0
        /\ rotation = RotationOf("X_POS")

Reset == /\ current' = "X_POS" /\ candidate' = "X_POS" /\ waited' = 0
         /\ rotation' = RotationOf("X_POS")
         /\ UNCHANGED <<board, pose>>

Magnitude(n) == IF n < 0 THEN -n ELSE n

\* dominant_axis: no opinion if both readings are small.
Opinion(r) == Magnitude(r[1]) >= Dominant \/ Magnitude(r[2]) >= Dominant
AxisOf(r)  == IF Magnitude(r[1]) > Magnitude(r[2])
              THEN IF r[1] > 0 THEN "X_POS" ELSE "X_NEG"
              ELSE IF r[2] > 0 THEN "Y_POS" ELSE "Y_NEG"

\* axis_reading
Along(axis, r) == [X_POS |-> r[1], X_NEG |-> -r[1],
                   Y_POS |-> r[2], Y_NEG |-> -r[2]][axis]

\* Mutant of Proposed: the new axis must win against the candidate.
ProposedOverCandidate(r) ==
  IF Along(AxisOf(r), r) - Along(candidate, r) < Hysteresis THEN current ELSE AxisOf(r)

\* Another axis must beat the current one by the hysteresis.
Proposed(r) ==
  IF Along(AxisOf(r), r) - Along(current, r) < Hysteresis THEN current ELSE AxisOf(r)

\* Nothing is timed while no other axis is the candidate.
Longer == IF candidate # current /\ waited < Debounce THEN waited + 1 ELSE waited

\* No sample, or one without an opinion: the candidate keeps its time.
Skip == /\ waited' = Longer
        /\ UNCHANGED <<board, pose, current, candidate, rotation>>

\* One sample: a new proposal starts the time anew; the same one, held long
\* enough, is applied.
Sample ==
  LET p == Proposed(pose) IN
  /\ Opinion(pose)
  /\ \/ /\ p # candidate
        /\ candidate' = p /\ waited' = 0
        /\ UNCHANGED <<current, rotation>>
     \/ /\ p = candidate /\ (p = current \/ Longer < Debounce)
        /\ waited' = Longer
        /\ UNCHANGED <<current, candidate, rotation>>
     \/ /\ p = candidate /\ p # current /\ Longer >= Debounce
        /\ rotation' = RotationOf(p) /\ current' = p /\ waited' = 0
        /\ UNCHANGED candidate
  /\ UNCHANGED <<board, pose>>

Turn(r) == pose' = r /\ UNCHANGED <<board, current, candidate, waited, rotation>>

\* The picture is upright as far as the watcher can tell: flat, or drawn for the
\* axis gravity follows, or so near the corner that the hysteresis holds it.
Upright ==
  \/ ~Opinion(pose)
  \/ rotation = RotationOf(AxisOf(pose))
  \/ \E axis \in Axes : /\ rotation = RotationOf(axis)
                        /\ Along(AxisOf(pose), pose) - Along(axis, pose) < Hysteresis
=============================================================================
