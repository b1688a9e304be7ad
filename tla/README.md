# BurnScope: TLA+ models, checks and proofs

BurnScope is a small display (ESP32 firmware, C) that shows how much of the
Claude and Codex quotas is used, and a host client (Python) that finds the
displays on the LAN and pushes snapshots to them. This directory models the
parts where order, concurrency, failures and restarts matter, checks them with
TLC and proves the most important results with TLAPS.

## The system

| part | state it keeps | operations | talks to |
|---|---|---|---|
| flash (`nvs_store.c`) | one pairing slot per agent, WiFi credentials | load, bind, save, erase | called by every other firmware part |
| snapshot store (`snapshot.c`) | newest snapshot per agent, RAM | put (monotonic), get, foreach | HTTP puts, display listens |
| HTTP server (`http_server.c`) | the request in hand, OTA mutex | POST /summary, GET /health, POST /ota | flash, store, mDNS |
| mDNS (`mdns_svc.c`) | `paired_<agent>` items, value cache | start, refresh | reads flash; refreshed by HTTP and factory reset |
| factory reset (`factory_reset.c`) | hold counter | poll, erase, restart | flash, mDNS |
| WiFi, portal (`wifi.c`, `provisioning.c`) | auth streak, back-off, credentials | events, reconnect timer, provision | flash, restart |
| boot (`main.c`) | - | boot, state callback | starts all of the above, paints splashes |
| burn-in protection (`burn_idle.c`, adapters) | ACTIVE/DIMMED/OFF, queue, fade, panel | events, drain task, fade timer | display driver, IMU, button |
| orientation, UI | rotation, visible agent | IMU task, 1 Hz tick | panel, store |
| host cache (`host_cache.py`) | paired list, push state, client id (files) | locked and unlocked read-modify-write | every host process |
| Codex daemon (`codex_daemon.py`) | queue, last snapshot, failure counters | four workers, health reconciliation | app server, devices, cache |
| Claude status line (`claude_statusline.py`) | - | foreground and detached push children | devices, cache |
| pusher, discovery (`pusher.py`, `discovery.py`) | - | HTTP calls, mDNS browse, duplicate hosts | devices |

Hard behaviour: three firmware tasks share flash and the TXT record without a
common lock; a restart may fall between any two steps; flash may fail; hosts
push concurrently and late; on the host, processes share files under partial
locking, and asyncio workers interleave at every await. `PROJECT.json` lists
each hazard at its line.

What makes each part correct:

- pairing: a slot changes hands only through a wipe; only owners are served;
  what is shown is the owner's and never goes back in time; no failure invents
  a pairing; what is advertised follows the slots;
- firmware update: an image is confirmed only by an accepted snapshot; at most
  one upload; a device that is not confirmed returns to the old image;
- burn-in: a push or a touch always ends with a lit panel; an idle panel ends
  dark; the panel state follows the state machine whatever the fade does;
- WiFi: a device with credentials keeps trying; credentials are erased only by
  the button or after as many authentication failures as it takes with no
  address between them, and no other disconnection counts;
- host cache: no update is lost, cleared records stay cleared;
- daemon: whatever is dropped, lost or overtaken, a reachable display ends up
  with the usage as it is; a green status does not hide a delivery that failed,
  as far as the displays answer for themselves. (It may be false where another
  display answered, and the workers of a dead app server go on beside their
  successors: see "Seen on the way".)
- screens: what is on the glass is what the host meant, of an agent that is
  stored, under its owner's name; a splash says how things stand.

## Plan

1. `PairingPromise`, `Device`, `Device_proofs`: pairing, store, advertisement,
   reset and restart. **Done.**
2. `IdleStep`, `BurnIdle`, `BurnIdle_proofs` (the pure state machine in time)
   and `Panel` (queue, drain task, fade timer, orientation). **Done.**
3. `PairedStore`, `HostCache`, `HostCache_proofs`: the cache files under
   concurrent processes, each operation atomic. **Done.**
4. `Wifi`, `View`, `Ota`, `Wire`, `Battery`, `Orientation`, composed in
   `Firmware`: one device as its user sees it. **Done.**
5. `Fanout`, `CodexDaemon`, `StatusLine`, composed in `Hosts`: one host and its
   displays, liveness of delivery. **Done.**
6. Theorems: the type invariant, every safety invariant and every action property
   that the passing runs check, of each composition: `Device_proofs`,
   `BurnIdle_proofs`, `Panel_proofs`, `HostCache_proofs`, `Firmware_proofs` (update,
   network, battery), `Wire_proofs`, `Glass_proofs` (the rest of `Firmware`) and
   `Hosts_proofs`; and that `Device` implements `PairingPromise`. **Done.**
   Left: lemmas the proofs suggest as properties of their own, such as what the
   screen says while something is under way (`NetworkShown`).

The twelve runs are one passing run per composition (two for the firmware, whose
liveness has studies of its own), and the disagreements met on the way.

## Modules

**PairingPromise** is what a device promises its hosts: each agent has at most
one owner, chosen by trust on first use; an owner leaves only by a wipe; a push
is published only for a client let in as the owner; what is shown never goes
back until a restart.

**Device** is the firmware that keeps this promise.

| variable | code |
|---|---|
| `slot`, `creds` | NVS namespaces of `nvs_store.c` |
| `snap` | `s_slots` of `snapshot.c`, with the sender as history |
| `cache`, `txt` | `s_paired_cache` and the items handed to the mDNS library |
| `start` | how far boot, WiFi and `mdns_svc_start` have come |
| `http` | the request in the single httpd task: where its handler stands, its agent and client, its survey or TXT value |
| `reset` | `factory_reset.c` task: where it stands, `held`, both erase results |
| `wiped` | history: slots erased since the last restart |

Actions, one per access to shared state: `SummaryLoad`, `SummarySave` (the two
halves of `nvs_store_bind_or_check_client_id`; its mutex excludes only other
binds, and all binds run on the httpd task), `SummaryRefresh`, `SummaryTxt`
(the two halves of `mdns_svc_refresh_paired`), `SummaryPut`; `Probe`, `Survey`,
`Answer` for /health and /ota (one slot per step); `MdnsCollect`, `MdnsAdd` for
`mdns_svc_start`; `Poll`, `EraseIds`, `ResetRefresh`, `ResetTxt`,
`ResetRestart` for the button task; `PowerCycle`, `Provision`,
`ProvisionRestart`, `WifiGivesUp`, `GotIp` for boot and network. A capture time
is drawn where the code first compares it, in `SummaryPut`. Requests refused
before flash is read change nothing and are left out. `Faults` selects what may
fail: NVS accesses ("nvs", also the reinitialisation of the partition at boot),
erasing the credentials ("creds"), setting a TXT item ("mdns").

**Device_proofs** holds the theorems, **MCDevice** the instance for TLC; the other
compositions have an `MC` and a `_proofs` module of their own in the same way.

**IdleStep** is `burn_idle.c` as operators: `Step` takes a configuration, a
machine, an event and the time to the next machine, `Brightness` and `Lit` are
its output. **BurnIdle** calls `Step` with any event at any moment; `user`,
`push`, `soft` and `ev` record what really happened, against which the one
timestamp of the machine is judged. **BurnIdle_proofs** holds its theorems.

**Panel** puts the machine into the sh8601 adapter (the co5300 adapter is a
clone of it).

| variable | code |
|---|---|
| `queue`, `sm` | `s_queue`; `s_sm`, its time counted back from the present |
| `fade`, `timer` | `s_fade`; is `s_fade_timer` running |
| `cb` | `fade_step_cb`: next step, whether `my_gen` is still the generation, what it writes |
| `task` | `drain_task` and `orientation_task`, each with its call of `start_fade` |
| `panel` | DISPON/DISPOFF and register 0x51 |
| `auto` | `BURNSCOPE_AMOLED_ORIENTATION_AUTO` |
| `stimuli`, `late` | bound on what comes from outside; history of the accepted window |

Each critical section under `s_fade_mux`, each timer call and each panel write
is a step, since the tasks run on two cores and the writes wait for the LVGL
lock, which the orientation task holds from `TakeLock` to its last anchor. The
generation counter is compared for equality only and appears as `cb.mine`. A
callback finds one or more further periods gone, so it may be late at will. The
panel calls are taken to succeed (the code only logs a failure).

**PairedStore** is the list of paired devices as its users want it: every change
is one whole operation on the list as it stands.

**HostCache** is `host_cache.py` with any number of processes of one agent
calling it (status line children, the daemon, `burnscope pair`, `pair-reset`).

| variable | code |
|---|---|
| `paired`, `push`, `stamp` | `paired-devices.*.json`, `last-push.*.<device>`, `mdns-reconcile.*.json` |
| `lock` | the flock of `_with_lock` |
| `call`, `at`, `read` | of each process: the function it is in with its arguments, the next access, what it has read |
| `clock` | `time.time()`, as far as claims see it |
| `overtaken`, `failed`, `won` | history: edits overtaken by a clear, failures written, grants |

One step per read, replacement or removal of a file, so the operations under the
lock (`Add`, `Update`, `Remove`, `Bump`, `Claim`) interleave with those that take
none (`Record` for `write_push_state` and `reset_push_failures`, `Clear` for
`pair-reset`). `Crash` ends a process anywhere; it also stands for an
`_atomic_write` that raises. `menu` limits what is called in a behaviour.

### The device as a whole

**Firmware** composes six parts, each a module with its own variables and without
a next-state relation: `Firmware` says which task takes which of their steps,
what one part does to another, and what a restart, a failed call or the user
does to all. **MCFirmware** is its instance.

| module | models | state |
|---|---|---|
| `Wifi` | `wifi.c`, `provision_post` of `provisioning.c` | `creds` in flash; `mode`, `link` of the radio; `events`, the queue of the event loop; `timer`, `backoff`, `streak`, `hadIp` (the `s_*` of `wifi.c`); `portal` |
| `View` | `ui.c` of the three displays, `snapshot.c`, `on_wifi_state` of `main.c` | `store`, `slot`, `clock`; `screen` (agent or splash, rows, age, owner); `cid`, `cycle`, `footer` (counters of the tick); `restore`, where `on_wifi_state` stands |
| `Wire` | `schema.py` to_dict, `parse_snapshot` and `parse_session` | none: `Encode`, `Parses` and `Parse` are operators, `Twisted` what other hosts and broken connections make of a body: `Harmless`, `Harmful`, or `Oversize` (a key too long for the parser's buffer) |
| `Ota` | `ota_post_handler`, `maybe_mark_ota_valid`; bootloader external | `image`, `state`, `boot` in flash; `running`, `upload`, `mutex`, `reboot`, `done` |
| `Battery` | the label of the 1.75" display and `axp2101_read` | `pack` (the world), `reading`, `valid`, `shown`, `label` |
| `Orientation` | `orientation.c` of both AMOLED displays | `pose` (the world), `current`, `candidate`, `waited`, `rotation` |

| task | actions of `Firmware` |
|---|---|
| event loop, calling `on_wifi_state` | `Started`, `Ignored`, `Lost`, `GiveUp`, `GotIp`, `Restore` (count, then wait or copy and show: four steps, since httpd runs between them) |
| timer service | `Reconnect`, `PortalRestart`, `UpdateRestart` |
| httpd, one request at a time | `Receive` (the parser), `Admit`, `Store`, `Show`, `Confirm`; `Upload`, a stage per step; `Save` |
| LVGL | `Tick` |
| orientation watcher | `Watch` |
| button | `Press`, `PressRestart` |
| the world | `RadioAnswers`, `RadioFails`, `PowerCycle`, `Turn`, `Charge`, `Clock`; `Boot` after each restart |

LVGL's lock makes every call that paints a single step. `meant` remembers what
the host meant by each stored snapshot, `misread` whether a body was judged
wrongly, `overtaken` whether one task painted over what another had just shown
(`main.c:85`: a push arrives between the count and the splash, which then covers
it), `refusals` the refusals by the network since the last address, `stranded` a
reconnect that failed and that nothing repeats (`wifi.c:63`), `kept` the images
that answered a push. Who may push, and the writes of the slots, are `Device`'s
subject; here a push is admitted in one step.

### A host and its displays

**Fanout** is one call of `push_to_all` and what follows it, a step per await:
`Start`, `Find`, `Claim`, `Claimed` (`_resolve_paired_devices` with an empty
list), `Send` for each target, `Refresh`, `Browse`, `Retry`
(`refresh_and_retry_transport_failures`), `Settle`, `Split`
(`reconcile_duplicate_hosts`) and `Book`, the recording of the results, of all of
them at once in the daemon (no await in it), of one after the other in a child of
the status line, between which other processes run.

| variable | code |
|---|---|
| `store`, `slot`, `up`, `addr` | external: what each display holds, who owns it, is it on the LAN, and where |
| `usage` | external: what the app server, or Claude, reports |
| `paired`, `outcome`, `cool` | `paired-devices.*.json`, `last-push.*`, the reconcile slots |
| `call` | of each process: where its call stands, its targets, hosts and results |
| `told`, `call.void` | history: what the push recorded last was to bring (0: none since the display started, or another display answered for it); those another display answered for, or that restarted meanwhile |

**CodexDaemon** adds the three workers of each app server, with `queue`,
`pushed`, `failing`, `missed` (`_snapshot_queue`, `_last_pushed_snapshot`,
`_push_failures`, `_health_failures`), `server`, `dead` and `round`, the round of
a health loop: `Wake`, `Probe` and `Weigh`, `Reconcile`, `Relocate`,
`ProbeAgain`, `NoneAgain`, `WeighAgain`, `Verify`, `Rebind`, `Share`, `Part`, `Repush`.
`asyncio.gather` does not cancel its siblings, so after `ServerEnds` or
`WorkerDies` the old workers of one app server work on beside those of the next
(`Servers`); they share the queue and the memory. **StatusLine** lets children
draw, overtake each other, write their results file by file (`Writes`) and die. **Hosts** composes the one or the other with
what may go wrong: `LosesAnswer` (the request or its answer), `MissesDisplay` (a
browse sees fewer displays, or fails), `ProcessDies` (`DaemonDies`: all workers at
once, with their memory; `WorkerDies`; a child), `DisplayChanges` (power, address,
reboot, factory reset). **MCHosts** is its instance.

A snapshot is the number of the usage it tells of and is as old as that change;
usage that differs in `resets_at` alone is no change (`semantically_equal` and
the anchoring of the daemon). A browse returns where displays are at its end.
The first address of a display bears its name, which loses nothing as names mean
nothing. Health probes go in the order of the list.

## Runs

| run | expects | shows |
|---|---|---|
| `device` | pass | All faults on: `OwnerNeverReplaced`, `ShownNeverGoesBack`, `ShownIsOwners`, `ServedToOwners`, `TakenIsTaken`, and that `Device` implements `PairingPromise` |
| `device_rebind` | violation | `ResetFreesDevice` (comment at factory_reset.c:51): a push in the 100 ms between erase and restart binds again |
| `device_txt` | violation | `TxtAgreesWhenQuiet` (wire-format.md:190): a bind during `mdns_svc_start` is never advertised |
| `burn_idle` | pass | Every event at every moment: never dimmed or dark too early, dark after silence, pushes only ever dim and never shorten the time left |
| `panel` | pass | With and without rotation: without, the panel settles dark when the machine is off and at its level when lit, no fade stalls, and it goes dark for good after the last stimulus; with either, a pending DISPOFF belongs to a machine that is off |
| `panel_wake` | violation | `WakeIsLit` (burn_idle_adapter.c:218-226): DISPON comes before the generation is bumped, so the last check passes and a DISPOFF follows the wake |
| `host_cache` | pass | Any interleaving of calls and deaths: the list keeps the promise of `PairedStore` and only adds insert, save for edits overtaken by `pair-reset`; no failure is lost; a reconcile slot has one winner; every call ends |
| `host_cache_reset` | violation | `UpdatesNeverInsert` (host_cache.py:246-249, pusher.py:156-159): `pair-reset` takes no lock, and an update in progress puts the forgotten list back |
| `firmware` | pass | However pushes, uploads, the network, flash and the user interleave: the screen tells how things stand, what is stored and shown is what the host meant, a body is refused if and only if the format forbids it or it has a key too long for the parser's buffer; a complete image boots and a confirmed one stays; the battery label is current; but for the button, only as many refusals as it takes since the last address wipe credentials |
| `firmware_live` | pass | A device with a network in flash gets an address, the portal, or is stranded by a failed call; agents take turns; the owner in the footer follows a reset; the picture ends upright |
| `hosts` | pass | A status that says ok is of a display that holds what the push recorded last was to bring, if the display itself answered that push (or nobody did) and has not restarted since; once all is quiet each reachable display has the usage and keeps it; red that no failed push caused goes away |
| `panel_rotate` | violation | `PanelOff` (burn_idle_adapter.c:81-83): the anchor of a rotation cancels a sleep fade and the panel stays lit |

Bounds of `device`: two clients (an owner and a rival), both agents, two
capture times (older and newer), a button hold of two polls. Every property
speaks of at most two clients, two times and one agent or the pair of them, so
a third adds no new case; the proofs remove the bounds altogether. Clients are
interchangeable (symmetry). The runs with an expected violation have no faults
at all: the counterexamples need none.

`burn_idle` runs 14 moments over thresholds 2 and 2, 3 or 5: room for several
pushes, each prolonging the dimmed phase, and the full silence after them; the
theorems remove the bound. `panel` scales the thresholds to one and two ticks,
a fade to two callback periods (a value between start and target, and the
last), the queue to two entries (so that events are dropped) and allows two
stimuli among push, button and rotation, with any number of ticks: every race
needs a sleep in progress and one or two events against it. With three stimuli
(2.3 million states) the run passes as well. Two observations have no run of
their own: in a build with rotation `NoStall` fails without its premise (the
timer is stopped outside the lock at burn_idle_adapter.c:280), and with a wake
fade of 0 ms (`WakePeriods = 0`) `LevelAgrees` fails, because no later write
follows the stale one that burn_idle_adapter.c:218-220 calls benign.

`host_cache` has two processes, two devices and two addresses: every property is
about two operations meeting on one device, or on the list, and a second device
is what an edit of the first could damage. The operations are run in three
groups (`Menus`), each with all that write the same files and `pair-reset`; only
the lock joins the groups. A cooldown of one tick and two moments give a claim
inside and one after the cooldown, and one whose time is older than the stamp. A
bump starts only below `MaxFails`. The proofs need none of these bounds. In the
model an outcome recorded after its device was removed leaves its file behind,
and a bump overtaken by a reset writes the old count, increased; no property
excludes either (docstring of `remove_paired_device`, host_cache.py:276-281).

`firmware` and `hosts` would be too large with every fault at once. Each behaviour
follows one *study*: the kinds of fault that may happen in it, how many of them,
who pushes what, and which display. `firmware` has nine: network with portal and
flash (four faults, threshold of two refusals; four are a refusal, an address, and
two refusals more), flash with power, the wire with both layouts (three and two
rows; a snapshot with four windows, a window that ends while the clock runs, one
that rolls), update with power (with and without rollback; two images, three
faults), battery, and rotation on both boards. Faults of different kinds meet
where the code lets them meet: an update meets a loss of power, a wipe meets a
failing flash. `firmware_live` has four such studies. The footer is read every
two ticks instead of ten, the agents take turns every two, the clock ends at two.

`hosts` has fifteen: a loss, a missed browse, a display that goes, moves, reboots
or is reset at any moment of a daemon's start; an empty cache; a usage that
changes while a push is lost; stale addresses (of nobody, also with a loss or a
reset during the repair; shared; exchanged);
a display that comes back; an app server, worker or daemon that ends, with a full
and with an empty cache (a push needs a cache, a bootstrap does not); children of
the status line, two at a time. Two displays and three addresses are what the
repair of addresses tells apart: another display's address, and nobody's. A queue
of one forces drops, a threshold of two separates the first miss from the one
that turns the status red, two app servers make old workers meet new ones.
Larger instances pass as well, each taken alone: two faults of power, address,
loss or reset with one display (the second fault during the repair of the first);
both cached addresses wrong while the usage changes (192,000 states); a shared
address while a display goes and comes back (212,000 states).

In `HostCache` a process in a call goes on (weak), and flock wakes those waiting
for it in turn (strong, for `Acquire`); no process need ever call anything.

In `Firmware` what is fair (weak) is the chain of the network, since the radio
ends what it began, the event loop and the timers run, and a device boots; the
tick of LVGL; and the watcher. Users, hosts, httpd and faults owe nothing. In
`Hosts` it is each worker of asyncio, whose awaits all have timeouts, the
bootstrap and the poll, and the end of each cooldown (weak, each by itself); the
status line's children owe nothing. Both check no deadlock: a device may wait in
its portal for a user, a host whose usage does not change has nothing to do.

Fairness is further assumed in `Panel`: the tasks of FreeRTOS and the callback go
on whenever they can (weak), and the tick of the esp_timer task, which the
callback of the same task can delay but not displace, fires again and again
(strong). Nothing from outside is fair. In `Device` and `Panel` every state has a
successor (`PowerCycle`; the tick or the callback), so deadlock checking says
little and is left on.

## Proofs

`Device_proofs` proves, for every set of clients and capture times, every hold
length and every set of faults, the type invariant, all three invariants and
both action properties of the run, and the refinement `KeepsPromise`. The only
assumption is `DeviceAssumption` of `Device`: times are integers, `None` is
neither a client nor a snapshot, the hold takes at least one poll.

None of the invariants is inductive by itself. `IInv` adds:

- `SaveIsFree`: while a save is pending its slot is still empty; only the
  httpd task binds, so this is what makes load-then-save safe;
- `AdmittedIsOwner`: a request past the bind is its owner's, or the slot was
  wiped meanwhile; with the monotonic put it gives `StoredIsOwners`;
- `OneIsTaken`: a "1" in the TXT record, in the cache or in the hands of either
  task belongs to a taken or wiped slot; it is why reusing the cache after a
  failed read is safe;
- `SurveyIsCurrent`: what a survey has seen so far still holds, unless wiped.

`InitIInv` and `NextIInv` (one lemma per handler) show it inductive; each
theorem then follows from `IInv` or, for the action properties and the
refinement, from the few actions that write the variable in question
(`SlotSteps`, `SnapSteps`).

`BurnIdle_proofs` proves every property of the run `burn_idle` for all valid
configurations (`BurnIdleAssumption`, that is `burn_idle_config_valid`) and any
horizon. What relates the machine's timestamp to history is `Dated`: not before
the last user event, at most the dim threshold before the last push, after
neither. `Reached` says an idle state lies past its threshold, which is why
backdating a push can only move the timestamp forward; `Evaluated` is the state
right after a tick. `IInv` joins them with `TypeOK`; `PushStep`, `UserStep` and
`TimeStep` say what each kind of event does to the machine.

`HostCache_proofs` proves all safety properties of the run `host_cache`, for any
processes, devices, addresses, cooldown and menus; `HostCacheAssumption` says
that `None` is none of the other values and the numbers are naturals. `IInv`
adds, per process: `Args` (the arguments fit the operation), `Holds` (who has
read a file to replace it holds the lock, if its operation locks), `ListFresh`,
`FailsFresh` and `StampsFresh` (what it has read is still what the file holds,
or was cleared, or is at least what counts). `OthersSound` is the heart: a step
of one process leaves these true of all others, because only the holder of the
lock adds anything to a file; the rest only clears. `CallsEnd` stays with TLC.

`Firmware_proofs` proves four properties of the run `firmware`, for any hosts,
owners, thresholds, battery levels and studies (`FirmwareAssumption`): the device
as a whole, not its parts, is what they are about, so each proof first says which
of all steps concern the part (`OtaSteps`, `QuietSteps`, `BatterySteps`).

- `OtaInv` (`AlwaysBootable`, `PushKeepsImage`): until an upload is sealed, what
  runs is what boots; a sealed image is complete, new, has answered nothing, and
  keeps the mutex, hence a second upload cannot tear it; an image on trial leaves
  a valid one behind, because no upload begins during a trial.
- `RadioInv` (`WipeNeedsRefusals`): nothing is posted between a disconnection and
  its handling, since the handler alone starts the timer of the next attempt;
  therefore a refusal in the queue is the last event, no address hides behind it,
  and the streak counts at most what was refused since the last address.
- `BatteryInv` (`BatteryCurrent`): what the label was painted for determines the
  label, as a pack in place has a percentage (`AppearanceTells`); `OffQuiet` says
  that nothing is painted before the boot has taken its first sample.

`Panel_proofs` proves all five invariants of the run `panel`, for any thresholds,
lengths of the fades, depth of the queue and stimuli. `IInv` says of the two tasks
what they ask for (`DrainSound`, `OrientSound`), and of a fade whose it is:

- `PendingSound`: a pending DISPOFF is part of a fade, and was asked for by a
  machine that was off when the drain task last went into `start_fade`;
- `TimerSound`: without rotation only the callback ends a fade, so the timer runs as
  long as the fade does (rotation breaks this at burn_idle_adapter.c:280);
- `FadeSound`, `CommitSound`: without rotation the fade leads where the machine
  says, and a callback that will commit has read the fade as it still is;
- `DarkSound`: while the machine is off the DISPOFF is yet to be asked for, pending
  with the fade, in the hands of the callback or the drain task, or has happened.

`LevelFollows` needs `WriteSound` as well (the panel lags behind the fade by at most
one write), and its hypothesis is that both fades take at least one period, as the
defaults of 300 and 1500 ms do; Kconfig allows 0 ms, and then it is false, see Runs.

`Wire_proofs` proves `WireFaithful`: of any snapshot the host may send, with any
number of sessions, in every form the wire format allows (any order, unknown
members, fields an older host leaves out), the device stores what was meant, with
as many sessions as it has room for, provided that the keys fit the parser's buffers;
and of the ways to spoil a body that `Twists` lists, among them keys that do not fit,
it takes none. The
argument is about sets of members, not about their order: a body *tells* a session
(`Tells`, `Says`) if each member is one of those the host writes, or unknown, and
what is left out has its default. What a parser keeps of a name is its last value
(`ValueOf`), which is then the only one. `Sendable` is what the agents build: labels
that fit, percent from 0 to 100, at least one session, a window up to `MaxWindow`
(`INT32_MAX` in the code; the run sets it to the largest window it sends).

`Glass_proofs` proves the four remaining invariants of the run `firmware`, for any
hosts, owners, messages, displays and studies.

- `DataInv` (`AcceptedIsMeant`, `ShownIsMeant`): what httpd has in hand is what was
  meant (by `WireFaithful`) and from the listener on is stored (`PushSound`); the
  store holds one snapshot per agent (`StoreSound`); what the event loop is about to
  show is stored (`RestoreSound`); bars painted since the last tick are those of the
  store (`PaintSound`).
- `GlassTyped`, `RestTyped` (`TypeOK`): the shapes of the parts.
- `NetworkShown` (`ScreenAgrees`): what the screen says in every state, not only when
  all is quiet. Its heart is `AddressSound`: an address that is lost after it was
  given has its disconnection in the queue, so the handler that shows "Waiting..."
  or a snapshot is followed by the one that shows "Reconnecting...". `LastTaken`: the
  end of an attempt to connect has nothing queued behind it. `LeasedSound` and
  `LostSound` say what is on the screen with an address and after it; `WaitSound` and
  `overtaken` account for the push that is painted over; `BeforeSound` for the time
  before the first address, of which a device that is starting is part: the store is
  empty and no attempt has failed.

`Hosts_proofs` proves the two invariants of the run `hosts`, for any displays,
addresses, workers, children and studies. `Typed` adds to the types that a call and a
health round keep to the list they have read, at the points where the code indexes
it. `Sound` (`OkIsDelivered`) has three parts: `Kept`, a target that answered 204 has
what this call brought, unless its answer is void; `OkIsKept`, that is
`OkIsDelivered` by itself; and `DaemonSound`. The property speaks of `Attested`
displays only: another display's answer proves nothing, and `told` follows the order
in which pushes are recorded, which need not be that in which they were sent. A display is `Misjudged` if it is paired, has no counted failure, and
holds less than it was told: then the failure was counted by a daemon that has ended.
A daemon that has pushed misjudges nobody, because its first push has every misjudged
display among its targets (`Targets`) and `Record` judges them all. That is why the
health loop, which turns red into ok only where the daemon has pushed before
(`pushed`), never paints ok over an attested push that failed.

What the proofs brought to light in the models, and was corrected or stated:
`DaemonDies` could not fire as it was written, so the death of a daemon was checked
for its workers only; the round of a health loop does not keep `failed`
within its list at every step, only where it is read; and `NetworkShown` is not
inductive without what holds before the boot is over.

The assumptions on constants are `DeviceAssumption`, `BurnIdleAssumption`,
`PanelAssumption`, `HostCacheAssumption`, `WireAssumption`, `FirmwareAssumption` (its
`Messages \subseteq Sendable` says that hosts send what the agents build),
`FanoutAssumption`, `DaemonAssumption` (a queue of at least one, workers are
processes) and `HostsAssumption` (studies are studies); TLC evaluates each.

Left to TLC is liveness under fairness, which is out of this prover's reach:
`EventuallyDark`, `CallsEnd`, `StationSettles`, `AgentsTakeTurns`,
`FooterFollowsSlot`, `UprightAtRest`, `Delivered` and `RedHeals`. The properties of the
violation runs are false of the code. Nothing recursive is declared.

## Seen on the way

What the models show of the code without a run of its own, at the definition that
shows it.

- `RedHeals` needs its premise `d \in failing`: without any fault of the device,
  a push whose 204 is lost, or a health re-push answered 409 because a newer push
  came first, leaves the status red as long as the usage stands still, although
  every probe agrees (`_mark_health_ok` clears nothing while `_push_failures`
  counts; the comment at codex_daemon.py:670-679 expects the loop to heal it).
- `told` is 0 where another display answered: a unique cached host does not prove
  who replied (pusher.py:219) while addresses are stale, and a 401 of a display
  that belongs to somebody else then evicts the wrong pairing.
- `Split`: with two records on one cached address, one display answers both posts.
  If the browse parts the records, `reconcile_duplicate_hosts` returns nobody as
  unverified, and both results are recorded as ok, though one display was never
  reached. claude_statusline.py:277-281 and pusher.py:243-245, 252-256 say that such
  an answer cannot be attributed and must not mark anyone healthy. `OkIsDelivered`
  does not speak of it (`Attested`); `Delivered` shows that the daemon makes
  up for it; the status line does so with its next push.
- `Writes`, `Book`: results are recorded in the order in which calls end. An older
  push recorded late paints its own result over a newer one, ok over failed or a
  409 (red) over ok, until the next push; a result of a device unpaired meanwhile
  leaves its file behind.
- `Servers`: the workers of an ended app server are not unwound, against the
  comment at codex_daemon.py:28-29; they take snapshots from the same queue.
- `refusals`: wifi.c:6-7 speaks of "consecutive auth-flavoured disconnects without
  an intervening successful association", the code resets the streak at an address
  only (wifi.c:160). Refusals with associations or other drops between them add up
  to a wipe as long as no address comes. `WipeNeedsRefusals` states what the code
  keeps and does not check the stronger promise, which is false.
- `overtaken`: "Waiting for daemon..." may cover the snapshot that has just
  arrived, until the next push (main.c:85).
- `Wire`: a brace inside a string spoils the count by which a fourth session is
  skipped (http_server.c:443-453). An unknown key is to be skipped with its value
  (comments at 393 and 470), but a top-level key of sixteen or more characters
  (`key[16]`, 422) and a session's of thirty-two or more (`key[32]`, 345) fail the
  whole body: `Oversize`, the exception in `AcceptedIsMeant` and `WireFaithful`.
- `Device!EraseCreds`: a commit that fails after the keys were erased
  (nvs_store.c:122-129) is reported as a failure with the credentials gone, and an
  erasure of a key that fails is not reported at all.
- burn_idle.c:23-25 says that equal thresholds leave no dim phase; a push from OFF
  is nevertheless shown dimmed until the next tick.
- `Sendable`: neither agent limits a percentage (`float(pct) / 100`), so an upstream
  value above 100 would be refused by the display with the whole snapshot
  (http_server.c:363); schema.py:21 asks the agents to scale it.
- `Forms`: the portal reads a form with one `httpd_req_recv`, so a form that comes
  in two pieces is stored cut off.
- `Ota!Arm`: the upload mutex stays taken if the restart timer does not start
  (http_server.c:1088); `Ota!Write`: a silent sender holds httpd (1016).
- On the CYD the owner in the footer is read only when an agent is loaded, so with
  a single agent it is never refreshed; `FooterFollowsSlot` is stated for AMOLED.

## Not modelled, and why

Drawing, fonts, register-level drivers, logging, the DNS responder, the WiFi scan,
HTML, the bodies of /health and /status, and terminal I/O keep no state a property
could speak of. mDNS browsing, the Espressif HTTP and OTA libraries, the
bootloader and the Codex app server are external and modelled by how the code
uses them. Left out as well:

- the JSON-RPC plumbing of the daemon (requests matched to answers by id) and the
  anchoring of `resets_at`, which only widens what counts as the same usage;
- a poll answered before a notification but stamped after it
  (codex_daemon.py:521), and captures within one second: snapshots are ordered as
  the usage is;
- the derivation of the client id and of device ids, pure functions of the
  machine; the saved LCD id, written once by the driver's probe;
- the command line and the OTA pusher: one-shot commands, whose calls of the cache
  are calls of `HostCache`;
- the debouncing of the button and of motion samples before the queue of `Panel`,
  where an event may come at any time; the longer sample period of the co5300
  watcher, as `Orientation` counts periods;
- an AXP2101 that is absent at the start: there is no label then;
- NaN as `used_pct` (no comparison with a bound refuses it, http_server.c:363):
  numbers are integers here.
