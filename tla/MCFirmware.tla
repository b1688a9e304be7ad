----------------------------- MODULE MCFirmware -----------------------------
(***************************************************************************)
(* Firmware with two owners, four snapshots, and faults of one study at a  *)
(* time.                                                                   *)
(***************************************************************************)
EXTENDS Firmware

Window(used, resets, rolling, window) ==
  [type |-> "5h", used |-> used, resets |-> resets, rolling |-> rolling,
   window |-> window]
Snap(agent, captured, sessions) ==
  [agent |-> agent, captured |-> captured, sessions |-> sessions]

\* A window that ends while the clock runs; four windows, one too many; two that
\* roll, of which one is hardly used.
MCClaude == Snap("claude", 1, <<Window(40, 2, FALSE, 0)>>)
MCCrowd  == Snap("claude", 2, <<Window(1, 2, FALSE, 0), Window(55, 3, FALSE, 0),
                                Window(60, 3, FALSE, 0), Window(99, 3, FALSE, 0)>>)
MCCodex  == Snap("codex", 1, <<Window(1, 1, TRUE, 2), Window(30, 2, TRUE, 2)>>)
MCMessages == {MCClaude, MCCrowd, MCCodex}

Studying(stirs, number, display, says, owners) ==
  [stirs |-> stirs, faults |-> number, profile |-> display, says |-> says,
   owners |-> owners]
Cyd == "cyd2usb_st7789"
Round == "amoled_sh8601"
Large == "amoled_co5300_175"
MCStudies ==
  {Studying({"radio", "portal", "flash"}, 4, Cyd, {MCClaude}, {"alice"}),
   Studying({"flash", "power"}, 2, Round, {MCClaude}, Owners),
   Studying({"wire"}, 0, Cyd, MCMessages, {"alice"}),
   Studying({"wire"}, 0, Round, {MCClaude, MCCodex}, {"alice"}),
   Studying({"update", "power"}, 2, Cyd, {MCClaude}, {"alice"}),
   Studying({"update", "power"}, 3, Round, {MCClaude}, {"alice"}),
   Studying({"pack"}, 2, Large, {MCClaude}, {"alice"}),
   Studying({"pose"}, 3, Round, {}, {}),
   Studying({"pose"}, 3, Large, {}, {})}

\* What liveness is about: a network that comes and goes, owners that change,
\* two agents, and a device that is turned.
MCLive ==
  {Studying({"radio", "flash"}, 2, Cyd, {MCClaude}, {"alice"}),
   Studying({"flash"}, 2, Round, {MCClaude}, Owners),
   Studying({"power"}, 1, Cyd, {MCClaude, MCCodex}, {"alice"}),
   Studying({"pose"}, 2, Round, {}, {})}

\* Held upright on each side, near a corner, and flat.
MCReadings == {<<900, 100>>, <<-900, 0>>, <<0, 900>>, <<100, -900>>,
               <<650, 750>>, <<50, 50>>}
=============================================================================
