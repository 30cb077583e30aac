# BlueRemote in TLA+

BlueRemote (`src/`) makes a Palm handheld a Bluetooth keyboard and mouse: it
speaks the Bluetooth HID protocol to a computer, the *host*. This directory
holds TLA+ modules translated from its C source, TLC configurations that check
them, and TLAPS proofs about all of the modules with a state.

    tlc -config MCMsgQueueGrow.cfg MCMsgQueue     # one run
    tlapm MsgQueueProofs.tla                      # one module of proofs

`PROJECT.json` lists the runs, the mutants that show each property can fail, the
source lines behind every definition, the hazards, the findings and the theorems.

## 1. The system

### How it runs

Palm OS gives the program **one thread**. `AppEventLoop` (Main.c) repeats: run the
timers (`TimerTick`), take a command from the command queue (`CmdGet`) or, when it
is empty, sleep in `EvtGetEvent`; then offer the event to each module in turn
(`BTHandleEvent` first). The **callbacks** of the Bluetooth library run only inside
`EvtGetEvent`. So C functions are atomic against each other, but not against
what happens between two of them, and that is a lot: `WaitForResult`,
`WaitForCommand`, `WaitForQueue` and the dialogs are *nested event loops*, in
which timers, callbacks and user events run while the caller has locals in hand;
and a nested loop **drops** the commands it does not wait for.

Modules talk in three ways: by calls; by 32-bit **commands** (`ENQUEUE`) that a loop
takes later, when what they report may be out of date; and by shared state
(`g_connected`, `SPREF (device)`, the queues). Only the device list and the
preferences survive the program.

### Components

| Component | State | Operations | Hard to get right |
|---|---|---|---|
| **MsgQueue** | a ring of slots, three indices, two counters, a lock, a callback | new, free, add, get, processed, isProcessed, flush, length | growth of a wrapped ring; messages that are processed out of order; callbacks that use the queue in the middle of an operation |
| **HIDProtocol, input** | modifier latches, keys that are down, buttons, collected motion, sticky timer | modifier, key, button, move, wheel, send report, reset | latching modifiers against keystrokes that borrow modifiers; a report for every change, in the right order; motion while the channel is busy |
| **HIDProtocol, messages** | protocol mode, idle rate, suspended, lights | handshake, get/set report, protocol, idle, control operations | errors that are answered although the request was carried out; empty messages |
| **Bluetooth, channels** | per channel: sockets, output and input queue, the message being sent, its timer | send next, completion, disconnection, connect, disconnect, first report | one buffer between program and library; who makes an idle channel busy again; a send timer that outlives its connection |
| **Bluetooth, connections** | `g_connected`, `g_connecting`, `g_disconnecting`, the radio | connect, wait, disconnect, radio init and close, listen | two channels and a link that come and go separately; nested loops that drop commands; stop order |
| **Main** | `state`, `retry`, the current form | the commands, reconnect, reinitialise radio, start and stop | commands that are taken after the state they report has changed; start-up that fails halfway |
| **Timer, Heap** | a binary heap of timers, next trigger time | new, free, reschedule, cancel, tick, timeout | timers that are out of the heap while triggers run that change timers |
| **DevList** | the list, its database, the selected index | init, add, update, delete, select | an index that follows changes; pointers held across nested loops |
| **Commands** | the command queue; one user command handler | queue, get, execute, hard keys | packing of a kind and an error into 32 bits |
| **ProgressForm, AutoOff** | whether the form is shown, its animation timer, whether the device may turn itself off | start, stop, select animation; enable, disable | every end of a wait has to close the one and restore the other |
| **KeyboardForm** | what the buttons show, four screens | tap, switch screens, update modifiers and lights, load | a display that is set in five places and shares its state with the one before it |
| **MouseForm** | pad, chosen button, drag, arrow key and timer | pen, buttons, Drag, hard keys | drags and arrows that something else interrupts |
| **HardKeys** | whether it is enabled, the device | events of keys to commands | releases that look like presses, several keys in one event, repetitions |
| **SDP, HIDDescriptor** | none | encode and verify the service record | lengths of nested sequences |
| **Pref, Log, Hash, Tools** | settings, a ring of text, a table | load and save, write, look up | order of opening and closing |

`PROJECT.json` lists every component with its status, and every hazard with the line where
it bites and the properties that cover it.

What makes each of them correct, in a sentence: the **queue** loses, repeats and leaks
nothing and is first in first out; the **input side** keeps the host's picture of keys,
modifiers and buttons equal to the program's, shows every click as a stroke
with the modifiers it asked for, and leaves no key stuck; a **channel** never has two
owners of a buffer, sends every message once, never idles with work to do and
never hangs; the **connection** never counts as up when it is not, and its loss is
noticed; a **timer** is triggered once when it is due; the **device list** in memory
is the one that is stored, and the selection means the same device until the user
changes it; the **connection's** program always gets back to a state in which it can be
used, ended and reached, with both channels or none; the **display** shows what is
pressed, locked and lit once the commands are done, and each message of the host is answered
once, truly; and as a **remote control** it holds down at the host what is held down on the
handheld, and shows the form that was asked for.

## 2. The modules

| Module | What it is | Translated from |
|---|---|---|
| `MsgQueueAbs` | what MsgQueue.h promises: a bounded FIFO that may refuse at its limit | MsgQueue.h |
| `MsgQueue` | the ring, its callbacks and the client | MsgQueue.c |
| `MsgQueueProofs` | theorems about it: the ring, its memory and the refinement | |
| `HIDProtocol` | the input side, with user, host and sticky timer | HIDProtocol.c, first and third part |
| `HIDProtocolProofs` | theorems about it: the state, and what the host sees | |
| `Channel` | what is sent on the interrupt channel, with the commands, nested loops and connection state around it | Bluetooth.c, Main.c |
| `Connection` | the radio, the link, both channels, and how the program connects, waits, disconnects and ends | Bluetooth.c, Main.c, ProgressForm.c, AutoOff.c |
| `ChannelProofs`, `ConnectionProofs` | theorems about the two | |
| `TimerHeap` | the timers, the heap and the triggers, as far as they touch timers | Timer.c, Heap.c |
| `TimerHeapProofs` | theorems about it | |
| `DevList` | the list, the database and those who hold a device | DevList.c, ConnectForm.c, Bluetooth.c, Main.c |
| `DevListProofs` | theorems about it | |
| `HIDControl` | the messages of the host, and the commands that tell the forms | HIDProtocol.c, second part |
| `KeyboardForm` | the buttons that display something; composes `HIDControl` and `HIDProtocol` | KeyboardForm.c |
| `KeyboardFormProofs` | theorems about the two | |
| `HardKeys` | what an event of a key becomes | HardKeys.c |
| `MouseForm` | the mouse form, on top of `HIDProtocol` | MouseForm.c |
| `Remote` | events, commands and forms; composes `HardKeys`, `MouseForm` and `HIDProtocol` | Main.c, Commands.c, AppMenu.c, UITools.c |
| `RemoteProofs` | theorems about it | |
| `MC...` | instances for TLC: sets, symmetries | |

### MsgQueue

`q` is `struct MsgQueue` field by field (`buf`, `bufsize`, `process`, `front`, `end`,
`processing`, `waiting`). `MsgAddHandle` and `MsgFlush` call the client back, and the
client uses the queue from there, so a call is several steps: `phase` is the callback
that is running and `pending` the handle that is not stored yet. Actions:
`MsgAddHandle` (`AddNow` when no callback comes first), `FullReturn` and `AddedReturn` (a callback returns),
`MsgGet`, `MsgGetAndProcess`, `MsgProcessed`, `MsgFlush`, `FlushReturn`, `MsgNewQueue`,
`MsgFreeQueue`. `alloc` is the memory of handles, with which leaks are told; `held` is what the
client has taken. A fault stops the model, as PANIC stops the device. Names, traces
and the contents of messages are left out.

### HIDProtocol

`hidp` is the C globals of the module. A function of the C code maps this record to a new
one and appends its reports to the fields `keyboard` and `mouse`, so an action is one call from
outside (`Modifier`, `Key`, `Button`, `MouseMove`, `Tick`, `SendComplete`, ...) and
the reports it made can be looked at in order. `held` and `down` are the user's fingers and `host` what
the reports have told the host. X stands for the three motion axes, which the code treats
alike. The queue and the channel below are reduced to `busy`.

### Channel

`c` is the C structure of a channel with the buffer that the library has
(`lib`), `posChanged` of HIDProtocol and the command queue; `p` is the program: `state` and
`retry` of Main.c, `g_connected`, and the loop that is running. `asleep` says that the
loop is in `EvtGetEvent`, the only time when library actions (`Connected`, `Disconnected`,
`SendComplete`, `SendFailed`, `ACLDisconnect`, ...) happen. `Take` is an iteration of the running loop that finds a
command, `Wake` one that got another event; both do what the loop then does:
`BTHandleEvent` and the switch of `AppEventLoop`, or the end of a nested loop and
everything up to the next one. `MsgQueue`'s callback is expanded into `SendData`, because
the queue itself is checked separately; here it is a sequence.

Assumptions about what is outside of it: the library completes nothing for a socket that
was closed, and reports a channel as disconnected because of its link before it reports the link;
the device at the other end is the selected one (`DevList` shows when it is not); the dialogs of
`ERROR` are not modelled. Only the interrupt channel sends here; `Connection` has both
channels and nothing that is sent.

### Connection

`w` is one record: the globals of Bluetooth.c, Main.c, ProgressForm.c and AutoOff.c that say how far the
program has got, what the library is doing (`asked`, `acl`, `owed`) and the command queue. `w.at`
names the event loop that is running by what it waits for; all that is on the C stack follows from it
and from `back`, `starting` and `again`. `ResultOf` gives the kind of result that a `WaitForResult`
waits for, `Fixed` the loops that cannot be canceled and `Timed` those with a deadline. A C function
maps a record to the *set* of records at which its next loop starts, one for each answer that the library may
give at once. `Take` is an iteration with a command, `Wake` and `AppStop` are ones with an
event, and each runs up to the next sleep or command (`Iterate`). Callbacks happen while the loop is `asleep`.

The library answers anything the code distinguishes, at once or later; the devices are `DevList`'s, so
whether one is selected is a choice here. Two history fields: `leaving`, that some loop has seen a request to
end the program, and `raced`, that a channel came or went while the program waited for something else.
Two bounds hold the library back: it is silent while `MaxCommands` commands wait, and results that have nothing
to race with (`FirstCallback`) come only to an empty queue. Inquiries, names, passkeys and the loops of
error dialogs are left out.

### HIDControl and KeyboardForm

`k` is one record; `k.hidp` is the input side of `HIDProtocol`, whose operators `HIDControl` calls through an
instance. A message is a record with what `ProcessMessage` reads of it, and its handler also appends the answer to
`k.control`. `KeyboardForm` has the *displays*: buttons that show a modifier or a light,
with `value` (pressed) and `label` (locked), and the static `state` that the code remembers across forms.
Actions are taps, screens, forms, hard keys, the timer and messages; `Execute` takes a command. Ghosts say
why a display may be out of date: `reset` (the host reset the state: its command has no handler),
`missed` (the button was on another screen when its
modifier changed), and `plain` (it was loaded with the form and its label has not been set since). `held` are the
hard keys under a finger. Ordinary keys stand for one another.

### HardKeys, MouseForm and Remote

`HardKeys` is pure: `Process(device, enabled, override, event)` gives the commands that an event of the
system becomes, through the early pass, the Treo's callback and the late pass. `MouseForm` maps a record like the
other modules. `Remote` has both, on a handheld `r.device` with the keys and the pen `r.fingers`:
the loop takes commands first, then the events of the system, of which those that load and open a form wait in
`r.events`; `goal`, `switched` and `late` are what Main.c remembers to ask for a form again. Menus
disable the hard keys, dialogs swallow events. Ghosts: `asked` is the form asked for last,
`lost` says that a dialog came when a form was loaded, not yet open, and nobody waited for it any more, and `stuck` is what
may stay down because its release was not seen as one, from then until a key of that meaning is next released in sight.
`Update` is `frmUpdateEvent`, which the forms take as they take `frmOpenEvent`. Menus are opened only when no form is on its way
(`OpenMenu` asks for `goal = "none"`): a menu over a form that is about to be replaced is not modelled. The connect form is not among the forms: it has no hard keys and
nothing that is held.

### TimerHeap

`heap` is the array of Heap.c, `time` the time of each timer, `reinstate` the queue of
timers that TimerTick has taken out of the heap, `nexttrigger` as in the code. `TimerTick` takes
out what is due; `Trigger` runs the trigger of the first one, which may cancel or set timers, and puts it
back. A trigger that makes a report sends it when the channel is idle, and `SendNext`
reschedules the send timer: that is how a trigger meets another timer. `Disconnect` comes at any time, also with a message on
its way, whose timer it leaves running; the history `forgotten` is set then, until somebody sets, cancels or frees that timer, or it runs.
The loops of `RaiseUp`, `FloatDown` and `TimerTick` are recursive functions of the heap and the place in it.

### DevList

`list` is the array of devices and `db` the records with their delete attribute, `device` is `SPREF (device)`,
`saved` the preference on disk. Inbound connections are callbacks that add or overwrite devices and
come in any state; `at` says where the program is, and `dev` which device a dialog or
`BTConnect` holds a pointer to. `BTConnect` reads `encryptLink` once, when the link is up (`Authenticate`); a host that comes in
while it authenticates may clear the flag, and a failure deletes the selected device all the same. The two channels may belong to different hosts. Names and times of devices
are left out, and so are records of another version or size (DevList.c:213), which this version never writes.

## 3. The runs

Every run finishes in about a minute or two.

| Run | Question | Bounds |
|---|---|---|
| `queue_growing` | ring, counters, panics, leaks, queries, and refinement of `MsgQueueAbs`, for a queue of handles with a callback, like the Bluetooth output queues | 3 slots growing to 4 and 5, then refusing; 6 handles, 2 held |
| `hid_keyboard` | latches, timer, the host's picture, stuck keys, and clicks from every reachable state | 3 modifiers, 4 keys, 2 in a report, 3 in the buffer, 4 masks that set and clear each modifier they name |
| `hid_mouse` | clicks and motion on a channel that is busy or idle; a sticky modifier is released in the end | 2 modifiers, 2 buttons, steps of at most 2, motion of at most 3, 2 ticks |
| `channel_ends` | one owner of the buffer, guarded sending, `g_connected`; a send ends, a loss is noticed; with a host that may be back at once | 1 waiting report (and those of connecting and closing), 2 commands |
| `channel_stall` | no message sent twice, nothing left waiting on an idle channel; the host is not quick, see below | 2 waiting reports, 3 commands |
| `timer_order` | order of the heap and next trigger, no timer lost, once per tick; the one way in which the assertion of `HeapChange` fails | the 5 timers, 4 ticks |
| `devlist` | list, database, selection and held pointer agree | 3 hosts, 4 records |
| `connection` | a request to end is kept; a host can reach a program that waits; no channel survives a disconnection; two channels or none; progress form and auto-off follow | 2 commands |
| `display` | modifiers and lights are shown, and every message would have its one true answer, whenever no command waits | 2 modifiers, 2 keys of which one has a light, 4 screens, 1 command before a new cause |
| `remote` | what is down at the host is held or dragged, and the pointer rests, but for releases that were not seen as such; the form that was asked for is reached | a Treo (a letter, the key on its side) and a Tungsten (its navigator, a key for forms), 1 finger, 3 events of forms, 2 mouse buttons |
| `connection_animation`, `connection_start` | one violated property each, see Findings | 1 command |

Why the bounds suffice: the queue is filled and grown from every rotation of the ring,
with every set of processed messages; growth of a wrapped ring has the cases "the low part fits", "it does not",
"an index is in it", all of which occur with 3 slots. Modifiers only interact through
the pair of shifts, the shared timer and masks, and those masks only name shift and right alt, so these three show all
cases. Two waiting reports are the shortest queue in which order and leftovers matter, and a
connection's own reports (the first report, a reset) come on top of it and of the single one of the other run. Three commands allow an error, its
follow-up and an unrelated one. In `Connection` two commands are what makes an
order: the one that a loop waits for and one that it drops or hands on. In `display` the causes do not depend on the number
that wait, so one command and the ones that its handler queues give every pair of cause and late command. In `remote` a form
is asked for with two events and again with two, of which three may wait while a new event comes; one finger
is enough for the Treo, whose keys are told one by one, and the Tungsten exchanges one direction for another in a single event; the theorems speak of all keys and any number of fingers. A heap of five timers, all that the program has, has three levels,
so an element can move up, down and past its sibling. Three hosts and four records allow a
deletion before, at and behind the selected device, and a deleted host that returns.
The other kind of queue (repeating values, no callback) has no run of its own: it has the same ring, about which
the theorems speak for `IsHandles = FALSE` as well, and no memory to leak.

Symmetry is used for handles, keys, timers of one kind and hosts, never in liveness runs.
`queue_growing` has the action constraint `LowestFree` instead: the memory manager hands out the smallest free
handle, which is sound because free handles are interchangeable. `CHECK_DEADLOCK FALSE` (`channel_*`,
`timer_order`, `connection*`) stands where the system may stop: the
program has ended, a PANIC or failed allocation has reset the device, the clock has reached its bound, or so
many commands wait that bounds keep everything back.

Each property has a mutant in the module, an operator marked
`mutant:` that changes a definition as a plausible slip would; no specification uses it.

**A host that is not quick.** `NothingStalls` is checked with `QuickHost = FALSE`: the host does
not connect again before the program has taken the command that reports the loss. With a quick host it does
not hold: reports that waited when the channel was lost stay in the queue
(`BTSocketCallback`, Disconnected, flushes nothing), and on the new channel they wait until
the next report starts the queue, and are then sent to a host that may be another one. The repository promises nothing
about this, so it is a hazard and not a finding; all other channel properties but `SentOnce` are checked with a quick host.

### Fairness

- `HIDProtocol`: `WF(Tick)`. Every event loop calls `TimerTick` and none sleeps longer than
  `TimerTimeout` says. Nothing is asked of the user or the host. Since all
  modifiers share one timer that every release of a modifier starts anew, `StickyEnds` excepts a
  user who taps modifiers for ever.
- `Channel`: the loops run (`WF` of `Sleep`, `Take`, `Wake`), their timeouts and the send timer end (`SF`,
  since a loop that is busy with commands gets to its timers in every iteration and to its deadline in the end), and the
  library reports the end of a link (`SF(ACLDisconnect)`), which `LinkDisconnect` waits for without
  a timeout. **No** fairness for the completion of a message or for the host: `SendEnds` is about just that.
- The others are checked for safety only. `HeapOrdered` has the next trigger in it, which is what keeps an event loop from
  sleeping past a timer. In `Connection` a loop may wait for the library for ever (only the user ends
  `wait`, and `unlink` has no deadline), so what is checked instead is that waiting is not in vain (`Reachable`).

### Findings

Two runs are expected to find a violation.

| Run | What happens |
|---|---|
| `connection_animation` | For every connection request `BTSocketCallback` selects an animation (Bluetooth.c:578), and that starts the animation timer although no progress form may be shown: on the welcome screen, or with the other channel connected. The trigger then fails its `ASSERT (progressing);` (ProgressForm.c:335). |
| `connection_start` | When the radio cannot be started, `AppInit` closes AutoOff (Main.c:406) before the progress form, which enables auto-off as it closes and so uses what AutoOff has freed. The ChangeLog says "Really fix crash on BTRadioInit failure during startup." |

Other things the models show, which no property claims to be otherwise:

- `SendInputReport` clears `posChanged` before the step is subtracted (HIDProtocol.c:340): the rest of a movement
  longer than 127 units waits for the next movement.
- `WaitForQueue` takes a completed first report for a sent one (Bluetooth.c:1836); the error comes behind.
- `Disconnect` forgets a message that is being sent but not its timer (Bluetooth.c:1168). The timer later restarts
  the radio, or is due in one tick with a trigger that sends, and `HeapChange` fails its assertion. `AssertsHold`
  says that this is the only way: `~ panic` alone is violated by exactly these steps.
- `SetupNewAddress` does not select a host that is known (DevList.c:475), and unplug, link and the other channel
  act on the selected device.
- When the user cancels a wait with one channel connected that channel stays (Bluetooth.c:2230); a result of the
  other channel may end a wait (Bluetooth.c:1661). `BothChannels` says that such a race is the only way to be
  connected with one channel.
- Reports that wait when a channel is lost may reach the next host (see above).
- SET_REPORT (Output) sets the lights and answers with an error (HIDProtocol.c:625).
- After a reset by the host the keyboard form is stale: `CmdResetHIDState` has no handler. So are modifier buttons
  that were on another screen when their modifier changed.
- A key that is released under a dialog, with Option, or on another form than it was pressed on stays down or
  keeps moving the pointer.
- Leaving the mouse form does not end a drag: the button stays down until the mouse form is opened anew.
- A dialog that comes when a form is loaded and not yet open, and the form that was asked for was already met, leaves that form
  without its open event (`lost`). Main.c waits for the open event only while it has a goal.

## 4. The proofs

TLAPS proves these for every value of the constants under the assumption of the module
(`P!T` is theorem `T` of module `P`):

| Theorems | State `Spec =>` | Assumption |
|---|---|---|
| `MsgQueueProofs!TypeCorrect`, `RingCorrect`, `NeverPanics` | `[]TypeOK`, `[]RingOK`, `[]NoPanic` | `QueueAssumption` |
| `MsgQueueProofs!NothingLeaks`, `QueriesAnswer`, `Refinement` | `[]NoLeak`, `[]QueriesAgree`, `ImplementsQueue` | `QueueAssumption` |
| `HIDProtocolProofs!TypeCorrect`, `LatchesCorrect`, `TimerCorrect`, `HostCorrect` | `[]TypeOK`, `[]ModConsistent`, `[]StickyTimed`, `[]HostInSync` | `HIDPAssumption` |
| `HIDProtocolProofs!StuckTheorem`, `MotionTheorem`, `KeystrokeTheorem`, `ButtonTheorem` | `[]NothingStuck`, `[]MotionFlushed`, `[]KeystrokeShown`, `[]ButtonShown` | `HIDPAssumption` |
| `ChannelProofs!BufferTheorem`, `SentOnceTheorem`, `GuardTheorem` | `[]BufferOwned`, `[]SentOnce`, `[]SendsGuarded` | `ChannelAssumption` |
| `ChannelProofs!StallTheorem` | `[]NothingStalls` | and `QuickHost = FALSE`, as in its run |
| `ConnectionProofs!TypeTheorem`, `ExitTheorem`, `ClosedTheorem`, `ChannelsTheorem`, `ProgressTheorem`, `AwakeTheorem`, `ReachTheorem` | `[]TypeOK`, `[]ExitKept`, `[]ChannelsClosed`, `[]BothChannels`, `[]ProgressShown`, `[]AwakeWhileConnected`, `[]Reachable` | `ConnectionAssumption` |
| `DevListProofs!StoredTheorem`, `HeldTheorem`, `SelectionTheorem` | `[]ListStored`, `[]HeldInList`, `SelectionFollows` | `DevListAssumption` |
| `KeyboardFormProofs!ModifiersTheorem`, `LightsTheorem`, `AnswersTheorem` | `[]ModifiersShown`, `[]LedsShown`, `[]AnswersTrue` | `HIDControlAssumption`, `KeyboardFormAssumption` |
| `TimerHeapProofs!HeapTheorem`, `TickTheorem`, `AssertTheorem` | `[]HeapOrdered`, `[]OncePerTick`, `[]AssertsHold` | `TimerAssumption` |
| `RemoteProofs!KeysTheorem`, `PointerTheorem`, `FormTheorem` | `[]KeysExplained`, `[]PointerRests`, `[]FormReached` | `RemoteAssumption` |

What the assumptions ask, and why the code justifies it:

- `QueueAssumption`: a queue is created with at least two slots, a client holds fewer messages than that
  (`MaxHeld < InitialSize`; the program holds one or two of at least ten), and a chunk of memory is below
  64 KB (so that growth cannot overflow `UInt16`).
- `HIDPAssumption`: a report holds fewer keys than the buffer, a mask does not set and clear the same modifier
  and sets only modifiers in use, and sticky modifiers stay for some time.
- `ChannelAssumption`, `ConnectionAssumption`: the bounds are positive, the rest are flags. The bounds
  on commands and waiting reports are arbitrary, so they bound nothing that matters.
- `DevListAssumption`: there are at most `noListSelection` records, since the index is 16 bits and that value
  means "none".
- `HIDControlAssumption`: as for the input side; modifiers are codes of a range of their own, a
  light belongs to a key, and an idle rate is a byte. `KeyboardFormAssumption`: hard keys press modifiers
  that exist, and what the host sends is a message of the protocol.
- `TimerAssumption`: delays and timeouts are positive, and the send timer is not one that makes reports.
  How many timers there are and how long the clock runs is free.
- `RemoteAssumption`: a handheld has some of the six keys that stand for all others; one that is neither Treo
  nor Tungsten has no key on its side that `HardKeys` knows. The number of fingers and of waiting events is free.

Each proof module has the same layout: lemmas about operators, then one lemma for each C function,
then one for each action, then `Invariant` (`Spec => []IInv`) and the theorems as its consequences. Why the
properties are not inductive by themselves, and what makes them so:

**The ring.** `RingOK` alone is not inductive: while the "full" callback runs a message is outside the
ring, and a client that takes messages must not run into its own limit. `IInv` adds that at most `MaxHeld` messages
are being processed and that phase, pending handle, growth and client agree (`ControlOK`). The argument: index arithmetic is
reduced to lemmas about integers (`Add`, `Sub` and `Inc` on a ring of n); each operation on the
ring (`Put`, `Taken`, `Removed`, `Flushed`, `Grow`) has a lemma that it keeps the
ring's shape; each action then follows from the lemma of its operation. Removal in the
middle and growth are the long ones, each split by where the slot lies.
`NoPanic` follows because the panics test consequences of the shape, and
"client does not process" cannot come up while fewer than the initial size are held.

**The memory of the queue.** `MInv` adds `Owns`: each message has one place in the ring or is the pending one, the client
holds exactly the messages of the processed region, and nothing else is allocated. `NoLeak` and `QueriesAgree` are
read off it. For the refinement the ring is read from its front as a sequence; each
operation, growth included, is shown to do to that sequence what the abstract queue does, or nothing (`ImplementsQueue`, step by step).

**The input side.** `IInv` is the conjunction of the four properties. They are proved together
because they depend on each other: a keystroke restores the modifiers it borrowed, so the latches stay
consistent only if the restored value is the old one, and it is reported only if every change is.
`Reports(s, t)` says that a piece of code keeps the latches and has told the host everything it changed,
`Latches(s, t, f, g)` that it moves latches consistently while the fingers move from f to g; both compose, so each C
function has one lemma and a sequence of calls follows by composition. The fold over modifier bits in
`SetModifiers` is handled with an invariant of the fold over a finite set of eight bits.

**What the host sees.** A stroke is a place in the sequence of reports; n strokes are a set of n places no two of
which are neighbours, with the key up at the end (`Apart`). Code that only reports modifiers is `Quiet`: it adds no place for a key that is
up. A click is then quiet code around one press and one release, each of which adds or ends one place, and
`Showed` counts them together with their modifiers. `NothingStuck` needs `Fingers`: the keys in the buffer are those that
are down, in every order and at the limit of the buffer.

**The channel.** `World` has five parts that hold at every loop. `Shape`: one owner of the buffer and one place for a
message, and how long the queue may be where. `Timely`: what is on its way is timed although nested loops drop
commands. `Noticed`: the loop for the first report sees its end as soon as it runs, so what it drops is not about what was sent
later. `Known`: a lost connection is known, or a command that says so waits. `Started`: what waits on an idle channel was left by
an error that the program has yet to handle; this part alone needs a host that is not quick. A change of the channel,
each way in which a loop ends, and each action have their lemmas.

**The connection.** A function of the model leads from the code between two loops (`Ready`) to the next loop (`Sound`), so there is
one lemma per function, and the program's path through a connection is their composition. `ExitKept` and `ChannelsClosed` are parts of `Sound`. The hard part is the
command queue: `ProgressShown` and `Reachable` depend on the order in it, that what only the program itself sends (`Late`) is
never ahead of what could start another wait (`Triggers`). `Calm` is what holds unless a result came out of turn
(`raced`); `Begun` is about start-up, `Dark` about a program that ends without a listener.

**The device list.** The list in memory and the list that a restart loads are each the enumeration of the records
that are not deleted in increasing order of place, and there is only one such enumeration (`Least` and well-foundedness of the naturals
give it). So every operation has to show only that its list is such an enumeration. `SelectionFollows` is an action property: it follows
from where the deleted element was, before or behind the selected one.

**The keyboard form.** A display is right, or a command that will correct it waits: each part of `Sound` names those
commands. While a command is handled it is out of the queue and still counted (`x`). Which fingers the input
side has been told of is not in the state, so the invariant says that there is such a set `f` (hard keys whose
commands still wait are not in it yet), and `Lifted` says that each press in the queue has its release behind it. The
input side's lemmas are not proved again: `HIDProtocolProofs` is instantiated (`P`), and `HIDControl`'s operators are shown to be its.

**The timers.** A recursive function denotes something only if its recursion ends, so what a loop does is proved once
for loops in general (`LoopDefined`, `LoopKeeps`): its states have a rank in the naturals that each step lowers, hence there is a function that
satisfies the recursive equation, and what a step keeps holds where the loop ends. `RaiseUp`, `FloatDown` and the first loop of `TimerTick` are instances. In a heap that
is out of order at one place (`Almost`) the element there is too early or too late, `Adjust` takes the direction, and each swap
moves the place. `HInv` says that the heap is ordered, each armed timer is in one place, `g_nexttrigger` is that of the root between
ticks, and what is in the heap *during* a tick is due after it: a trigger sets timers only to later instants, so none runs twice.
For the assertion, `SendInv` adds that the send timer is armed only while a message is on its way or was forgotten by `Disconnect`; a trigger
sends only on an idle channel, so the timer it sets has been taken out with it only if it runs for a forgotten message. Each step that
makes a new owner of the timer ends the exception.

**The remote control.** `IInv` has three parts. `Typed` is about the record. `FInv`: the events that wait are loads and opens in pairs, and
they lead to the form asked for last, or there is a goal or a swallowed event to blame. `KInv`: what is down at the host is
held, stuck, or about to be let go by a command that waits (`Explained`), and a press that waits is of a key that is still held.
`KeysExplained` and `PointerRests` speak of states without commands; only with `Letting`, which counts
the releases in the queue, does a step keep them. They are not vacuous where something is stuck: each key, the pointer and the pad
has its own exception, which ends when a release of it is seen or it goes up at the host. Each event has a lemma on the commands
`HardKeys` makes of it, each form one on what its functions change (`But` names the fields), and the actions follow.

Some things changed in the models because a proof did not go through. `Reachable` held for every world in a run with two commands and
not with five, where the result for one channel ends the wait for the other: the property now names this
race. In `ProcessSetReport` two arms of a CASE applied to a message that is too short,
where the C code tests the length first, and in `Remote` two arms applied to a key on the side, of which
the specification then chose one without saying which. `TimerHeap` had recursive operators.

**Only model-checked**: liveness (`StickyEnds`, `SendEnds`, `LossNoticed`), which needs fairness and
ENABLED. Every other property of a run that passes is a theorem. The two properties of the runs that find a violation
are false, so there is nothing to prove.

## 5. The plan

Done, in this order: MsgQueueAbs and MsgQueue with proofs; HIDProtocol with proofs; Channel; TimerHeap; DevList;
Connection; HIDControl and KeyboardForm; HardKeys, MouseForm and Remote; the memory of MsgQueue and its refinement; what the
host sees; proofs about Channel, Connection, DevList, KeyboardForm, TimerHeap and Remote.

What is left, most important first:

1. An abstract specification of a connection (down, opening, up, closing) that `Connection` implements.
2. Input queues: every message of the host is taken and completed, once it is not empty.
3. Pure algorithms: `Commands` (packing of kind and error into 32 bits), `SDP` (a record that the
   encoder makes is accepted by `SDPVerifyRecord`, lengths at their limits), `Hash` (open addressing against a function).

## 6. What is not modelled

- Drawing, the place of buttons, how far the pointer moves and the scroll wheel, wording and logging.
- Dialogs of `ERROR`, which run an event loop inside of callbacks (`Remote` has the events they swallow).
- Inquiries, names and passkeys: they change names and the screen. Launch codes and the version check.
- Tick counters do not wrap around (a device would have to run for 497 days).
- SDP records and HID descriptors, constant data built once per start; `Commands`' packing; `Hash`, filled
  once and then only read; `Pref`, whose settings are constants of the modules that read them; `Log`, which nothing reads; `Tools`.
- Build files, the registration code generator, ParseHID (a tool for developers), documentation and resources.
