------------------------------ MODULE MCHosts -------------------------------
(* Studies of a host and its displays, for TLC.                            *)
EXTENDS Hosts

Study(agent, present, cached, first, kinds, n) ==
  [agent |-> agent, present |-> present, cached |-> cached, first |-> first,
   kinds |-> kinds, faults |-> n]

MCProcs == {"pusher", "health"} \X (1..MaxServers) \cup {"child"} \X (1..2)

Right == <<1, 2>>

\* With first = 2 the usage stays as it is, with first = 1 it changes once.
MCStudies ==
  { \* One fault at any moment while a daemon starts and comes to rest.
    Study("codex", {1, 2}, Right, 2,
          {"loss", "mdns", "power", "dhcp", "reboot", "reset"}, 1),
    \* No cache: the displays are found, and claimed.
    Study("codex", {1, 2}, << >>, 2, {"loss", "mdns", "reset"}, 1),
    \* The usage changes, and a push or its answer is lost.
    Study("codex", {1}, <<1>>, 1, {"loss"}, 1),
    \* Stale addresses: nobody's, one that is shared, two that are exchanged.
    Study("codex", {1, 2}, <<3, 2>>, 2, {}, 0),
    Study("codex", {1}, <<3>>, 2, {"loss", "reset"}, 1),
    Study("codex", {1, 2}, <<2, 2>>, 2, {}, 0),
    Study("codex", {1}, <<1, 1>>, 2, {"mdns"}, 1),
    Study("codex", {1, 2}, <<2, 1>>, 2, {}, 0),
    \* A display that was off comes back; the only one goes and comes back.
    Study("codex", {2}, Right, 2, {"power"}, 1),
    Study("codex", {1}, <<1>>, 2, {"power"}, 2),
    \* The app server, a worker or the daemon ends.
    Study("codex", {1}, <<1>>, 2, {"crash"}, 1),
    Study("codex", {1}, << >>, 2, {"crash"}, 1),
    \* Children of the status line, two at a time.
    Study("claude", {1, 2}, Right, 1, {"loss", "mdns", "crash"}, 1),
    Study("claude", {1, 2}, <<2, 2>>, 2, {"mdns"}, 1),
    Study("claude", {1, 2}, << >>, 2, {"mdns"}, 1) }
=============================================================================
