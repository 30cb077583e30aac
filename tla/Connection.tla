----------------------------- MODULE Connection -----------------------------
(***************************************************************************)
(* src/Bluetooth.c and src/Main.c: how the program starts the radio,       *)
(* connects to a host or waits for one, disconnects, starts the radio anew *)
(* and ends.  Where it waits for the Bluetooth library it runs an event    *)
(* loop of its own (WaitForResult, WaitForCommand, WaitForQueue), which    *)
(* takes every command from the queue and drops those it does not wait for.*)
(* What is sent on the channels is module Channel's, the list of hosts     *)
(* DevList's: here the library answers anything, and any device may be     *)
(* selected.                                                               *)
(***************************************************************************)
EXTENDS Integers, Sequences, SequencesExt

CONSTANTS
    MaxCommands,       \* bound: the library is silent while so many commands wait
    CrashOnLinkError,  \* DeviceFlagBluetoothCrashOnLinkError
    DisableAutoOff     \* SPREF (disableAutoOff)

ASSUME ConnectionAssumption ==
    MaxCommands \in Nat \ {0} /\ CrashOnLinkError \in BOOLEAN /\ DisableAutoOff \in BOOLEAN

VARIABLES
    w,      \* the program and the library, see Worlds
    asleep  \* whether the running event loop is in EvtGetEvent, where callbacks happen

vars == <<w, asleep>>

Channels == {"control", "interrupt"}
NoSockets == [c \in Channels |-> "none"]

(* The event loops, by what they wait for.                                 *)
ResultOf == [radioUp |-> "Radio", accessible |-> "Accessible", mode |-> "Accessible",
             radioBack |-> "Radio", link |-> "ACLConnect", authenticate |-> "Authenticate",
             encrypt |-> "Encrypt", control |-> "Connect", interrupt |-> "Connect",
             ignoring |-> "None", wait |-> "Connect", settle |-> "None",
             unlink |-> "ACLDisconnect", unlinkBusy |-> "ACLConnect", restore |-> "Accessible"]
ResultLoops == DOMAIN ResultOf
QueueLoops  == {"firstOut", "firstIn", "drainInterrupt", "drainControl"}
Idle        == {"launched", "closed"}
Loops       == ResultLoops \cup QueueLoops \cup Idle \cup {"prepare", "main"}
Fixed       == {"radioBack", "prepare", "ignoring", "settle", "unlink", "unlinkBusy"}
Timed       == QueueLoops \cup {"accessible", "mode", "radioBack", "prepare", "ignoring",
                                "settle", "unlinkBusy"}
Cancelable(at) == at \notin Fixed
Closing     == {"drainInterrupt", "drainControl", "unlink", "unlinkBusy"}

(* The commands that these loops act on: results with their status, and    *)
(* internal commands.                                                      *)
Ok == <<"Connect", "ok">>
Results ==
    {<<"Radio", "initialized">>, <<"Radio", "fatal">>, <<"Accessible", "ok">>,
     <<"ACLConnect", "ok">>, <<"ACLConnect", "error">>, <<"ACLDisconnect", "user">>,
     <<"ACLDisconnect", "lost">>, <<"Authenticate", "ok">>, <<"Authenticate", "denied">>,
     <<"Authenticate", "error">>, <<"Encrypt", "ok">>, <<"Encrypt", "error">>,
     Ok, <<"Connect", "error">>, <<"Send", "error">>}
Names == {"InitiateConnect", "WaitConnection", "InitiateDisconnect", "ConnectionError",
          "RadioError", "Unplug", "ExitApp"}
Cmd(name) == <<name, "command">>
Commands == Results \cup {Cmd(name) : name \in Names}

(* BTGlobals, the state of Main.c, and what the library is up to.          *)
Worlds ==
    [at       : Loops,                    \* the running event loop
     back     : QueueLoops \cup {"main"}, \* the loop that called BTHandleEvent
     socket   : [Channels -> {"none", "pending", "dead", "open"}],
                \* dataSocket: -1, connecting, failed; "open" is connected
     asked    : SUBSET Channels,          \* inbound connections that were accepted
     listening : BOOLEAN,                 \* listenerSocket # -1
     acl      : {"down", "connecting", "up", "dying"},
     owed     : {"nothing", "Authenticate", "Encrypt"},
                \* the result that BtLibLinkSetState announced last
     up       : BOOLEAN,                  \* g_connected
     state    : {"Disconnected", "Connected"},
     retry    : BOOLEAN,
     starting : BOOLEAN,                  \* BTRadioInit was called by AppInit
     again    : BOOLEAN,                  \* BTDisconnect was called by Reconnect
     exitapp  : BOOLEAN,                  \* the local variable of the waiting loop
     progressing : BOOLEAN,
     animating : BOOLEAN,                 \* whether the animation timer is set
     autooff  : {"enabled", "disabled", "closed"},
     fault    : {"none", "assert", "closed"},
                \* a failed ASSERT, or the use of a module that is closed
     cmds     : Seq(Commands),
     leaving  : BOOLEAN,                  \* history: the program was told to end
     raced    : BOOLEAN]                  \* history: a channel came or went while the
                                          \* program waited for something else

Enqueue(v, cmd) == [v EXCEPT !.cmds = Append(@, cmd)]
Go(v, at) == {[v EXCEPT !.at = at]}
Disconnecting(v) == v.at \in Closing \/ (v.at = "radioBack" /\ v.back \in Closing)
Open(v) == {c \in Channels : v.socket[c] = "open"}

-----------------------------------------------------------------------------
(* ProgressForm.c and AutoOff.c.                                           *)
AutoOffEnable(v, enable) ==
    IF v.autooff = "closed" THEN [v EXCEPT !.fault = "closed"]
    ELSE [v EXCEPT !.autooff = IF enable THEN "enabled" ELSE "disabled"]

StartAnimate(v) == [v EXCEPT !.animating = TRUE]
ProgressStart(v) ==
    LET shown == IF v.progressing THEN v ELSE StartAnimate([v EXCEPT !.progressing = TRUE])
    IN  AutoOffEnable(shown, FALSE)
ProgressStop(v) ==
    IF ~ v.progressing THEN v
    ELSE AutoOffEnable([v EXCEPT !.progressing = FALSE, !.animating = FALSE], TRUE)

(* mutant: auto-off is disabled before the progress form is closed         *)
OnlineEarly(v, retry) ==
    LET disabled == IF DisableAutoOff THEN AutoOffEnable(v, FALSE) ELSE v
    IN  {ProgressStop([disabled EXCEPT !.state = "Connected", !.retry = retry, !.at = "main"])}

(* Back in the main loop, connected or not (the ends of Connect, Wait,     *)
(* Disconnect and Reconnect).                                              *)
Online(v, retry) ==
    LET stopped == ProgressStop([v EXCEPT !.state = "Connected", !.retry = retry, !.at = "main"])
    IN  {IF DisableAutoOff THEN AutoOffEnable(stopped, FALSE) ELSE stopped}
Offline(v) ==
    {AutoOffEnable(ProgressStop([v EXCEPT !.state = "Disconnected", !.retry = FALSE,
                                          !.at = "main"]), TRUE)}

-----------------------------------------------------------------------------
(* mutant: BTWait goes on with the first channel                           *)
BTWaitEither(v) == Go(v, IF Open(v) # {} THEN "settle" ELSE "wait")

(* BTWait, called by Wait until the program is connected; an error other   *)
(* than a cancel starts it again.                                          *)
BTWait(v) == Go(v, IF Open(v) = Channels THEN "settle" ELSE "wait")
Wait(v)   == IF v.up THEN Online(ProgressStart(v), FALSE) ELSE BTWait(ProgressStart(v))

(* mutant: the form stays when the user cancels                            *)
WaitFailedShown(v, err) ==
    IF err = "canceled"
    THEN {[v EXCEPT !.state = "Disconnected", !.retry = FALSE, !.at = "main"]}
    ELSE BTWait(v)

WaitFailed(v, err) ==
    IF err = "canceled"
    THEN {ProgressStop([v EXCEPT !.state = "Disconnected", !.retry = FALSE, !.at = "main"])}
    ELSE BTWait(v)

(* HIDPSendReport (true) and WaitForQueue, whose report may be refused.    *)
FirstReport(v, at) == Go(v, at) \cup Go(Enqueue(v, <<"Send", "error">>), at)

-----------------------------------------------------------------------------
(* BTConnect.                                                              *)
(* mutant: only connected channels are closed                              *)
CleanupOpen(v) ==
    Offline([v EXCEPT !.up = FALSE,
                      !.socket = [c \in Channels |-> IF @[c] = "open" THEN "none" ELSE @[c]]])

Cleanup(v) == Offline([v EXCEPT !.socket = NoSockets, !.up = FALSE])

(* Connect (c), unless c is connected already: it is connected at once, it *)
(* is on its way, or an error ends BTConnect.                              *)
Socket(v, c, s) == [v EXCEPT !.socket[c] = s, !.up = FALSE]
Connected(v, c) == IF c \in Open(v) THEN v ELSE Socket(v, c, "open")
ConnectChannel(v, c) ==
    IF c \in Open(v) THEN {} ELSE Go(Socket(v, c, "pending"), c) \cup Cleanup(Socket(v, c, "none"))

Prepare(v)   == Go(v, "prepare")
Interrupt(v) == Prepare(Connected(v, "interrupt")) \cup ConnectChannel(v, "interrupt")
Control(v)   == Interrupt(Connected(v, "control")) \cup ConnectChannel(v, "control")

Encrypt(v) == Control(v) \cup Cleanup(v) \cup Go([v EXCEPT !.owed = "Encrypt"], "encrypt")
Authenticate(v) ==
    Encrypt(v) \cup Control(v) \cup Cleanup(v)
    \cup Go([v EXCEPT !.owed = "Authenticate"], "authenticate")

(* The link is there; whether it is to be encrypted depends on the device. *)
Linked(v) == LET s == StartAnimate(v) IN Authenticate(s) \cup Control(s)

LinkConnect(v) ==
    CASE v.acl = "up" -> Linked(v)
      [] v.acl = "dying" -> Cleanup(v)
      [] OTHER -> Linked([v EXCEPT !.acl = "up"]) \cup Cleanup(v)
                  \cup Go([v EXCEPT !.acl = "connecting"], "link")

BTConnect(v) == IF v.up THEN Online(v, TRUE) ELSE LinkConnect(v)

(* Connect of Main.c, unless there is no device to connect to.             *)
Connect(v) == {[v EXCEPT !.at = "main"]} \cup BTConnect(ProgressStart(v))

-----------------------------------------------------------------------------
(* BTDisconnect, which Disconnect or Reconnect called.                     *)
Unlinked(v) ==
    IF v.again THEN BTConnect(ProgressStart([v EXCEPT !.state = "Disconnected", !.again = FALSE]))
    ELSE Offline(v)

(* LinkDisconnect, unless there is no device.                              *)
LinkDisconnect(v) ==
    Unlinked(v)
    \cup (CASE v.acl = "connecting" -> Go(v, "unlinkBusy")
            [] v.acl = "down" -> {}
            [] OTHER -> Go([v EXCEPT !.acl = "dying"], "unlink")
                        \cup Unlinked([v EXCEPT !.acl = "down"]))

(* Disconnect (c), when what is left was sent.                             *)
ControlDrained(v)   == LinkDisconnect([v EXCEPT !.socket["control"] = "none"])
InterruptDrained(v) ==
    LET s == [v EXCEPT !.socket["interrupt"] = "none"]
    IN  ControlDrained(s) \cup (IF "control" \in Open(s) THEN Go(s, "drainControl") ELSE {})

BTDisconnect(v) ==
    LET s == [v EXCEPT !.up = FALSE]
    IN  InterruptDrained(s) \cup (IF "interrupt" \in Open(s) THEN Go(s, "drainInterrupt") ELSE {})

Disconnect(v) == BTDisconnect(ProgressStart([v EXCEPT !.retry = FALSE, !.again = FALSE]))
Reconnect(v)  == Disconnect(v) \cup BTDisconnect(ProgressStart([v EXCEPT !.again = TRUE]))

-----------------------------------------------------------------------------
(* The radio.                                                              *)
(* mutant: g_connected is left to those who connect                        *)
BTRadioCloseConnected(v) ==
    [v EXCEPT !.socket = NoSockets, !.asked = {}, !.listening = FALSE, !.acl = "down",
              !.owed = "nothing"]

BTRadioClose(v) ==
    [v EXCEPT !.up = FALSE, !.socket = NoSockets, !.asked = {}, !.listening = FALSE,
              !.acl = "down", !.owed = "nothing"]

(* The end of BTClose and of AppClose: the radio, the progress form and    *)
(* AutoOff are closed.                                                     *)
Closed(v) == {[ProgressStop(BTRadioClose(v)) EXCEPT !.at = "closed", !.autooff = "closed"]}

(* BTClose sets the accessibility mode.                                    *)
BTClose(v) == LET s == ProgressStart(v) IN Closed(s) \cup Go(s, "restore")

(* BTInit failed: AppInit closes everything, and the progress form after   *)
(* AutoOff.                                                                *)
StartFailed(v) == {ProgressStop([v EXCEPT !.at = "closed", !.autooff = "closed"])}

(* AppStart, which connects to the selected device if it is told to.       *)
Started(v) ==
    LET s == [v EXCEPT !.starting = FALSE]
    IN  {ProgressStop([s EXCEPT !.at = "main"])} \cup BTConnect(ProgressStart(s))

(* ReinitRadio returns to the command that called it.                      *)
Reinitialized(v) ==
    IF v.state = "Disconnected" THEN {ProgressStop([v EXCEPT !.at = "main"])}
    ELSE IF v.retry THEN Reconnect(v) ELSE Disconnect(v)
ReinitFailed(v) ==
    LET s == Enqueue([v EXCEPT !.at = "main", !.leaving = TRUE], Cmd("ExitApp"))
    IN  {IF v.state = "Disconnected" THEN ProgressStop(s) ELSE s}

RadioFailed(v) == IF v.starting THEN StartFailed(v) ELSE ReinitFailed(v)

(* BTListenInit, after BTRadioInit.                                        *)
RadioReady(v) ==
    LET s == [v EXCEPT !.listening = TRUE]
    IN  IF v.starting THEN Started(s) \cup BTClose(v) ELSE Reinitialized(s) \cup ReinitFailed(v)

SetMode(v)     == RadioReady(v) \cup Go(v, "mode")
BTRadioInit(v) == RadioFailed(v) \cup Go(v, "radioUp")
ReinitRadio(v) == BTRadioInit(BTRadioClose(ProgressStart(v)))

-----------------------------------------------------------------------------
(* The loop at v.at ends with err; what the code after it does.            *)
Returned(v, err) ==
    CASE v.at = "radioUp" ->
            IF err = "initialized" THEN Go(v, "accessible") ELSE RadioFailed(v)
      [] v.at = "accessible" ->
            IF err \in {"ok", "timeout"} THEN SetMode(v) ELSE RadioFailed(v)
      [] v.at = "mode" -> IF err = "canceled" THEN RadioFailed(v) ELSE RadioReady(v)
      [] v.at = "radioBack" ->
            LET s == IF err = "initialized" THEN v
                     ELSE Enqueue([v EXCEPT !.leaving = TRUE], Cmd("ExitApp"))
            IN  Go([Enqueue(s, Cmd("RadioError")) EXCEPT !.back = "main"], v.back)
      [] v.at = "link" -> IF err = "ok" THEN Linked(v) ELSE Cleanup(v)
      [] v.at = "authenticate" ->
            (CASE err = "ok" -> Encrypt(v)
               [] err = "denied" -> Control(v)
               [] OTHER -> Cleanup(v))
      [] v.at = "encrypt"   -> IF err = "ok" THEN Control(v) ELSE Cleanup(v)
      [] v.at = "control"   -> IF err = "ok" THEN Interrupt(v) ELSE Cleanup(v)
      [] v.at = "interrupt" -> IF err = "ok" THEN Prepare(v) ELSE Cleanup(v)
      [] v.at = "prepare"   -> IF err = "ok" THEN Go(v, "ignoring") ELSE FirstReport(v, "firstOut")
      [] v.at = "ignoring"  -> FirstReport(v, "firstOut")
      [] v.at = "wait"      -> IF err = "ok" THEN BTWait(v) ELSE WaitFailed(v, err)
      [] v.at = "settle"    -> FirstReport(v, "firstIn")
      [] v.at = "firstOut"  -> IF err = "ok" THEN Online([v EXCEPT !.up = TRUE], TRUE) ELSE Cleanup(v)
      [] v.at = "firstIn"   ->
            IF err = "ok" THEN Online([v EXCEPT !.up = TRUE], FALSE) ELSE WaitFailed(v, err)
      [] v.at = "drainInterrupt" -> InterruptDrained(v)
      [] v.at = "drainControl"   -> ControlDrained(v)
      [] v.at = "unlink"         -> Unlinked(v)
      [] v.at = "unlinkBusy"     -> IF err = "ok" THEN LinkDisconnect(v) ELSE Unlinked(v)
      [] v.at = "restore"        -> Closed(v)

(* mutant: a loop that cannot be canceled forgets that it saw CmdExitApp   *)
EndedSilent(v, err) ==
    Returned([IF v.exitapp /\ err = "canceled" THEN Enqueue(v, Cmd("ExitApp")) ELSE v
              EXCEPT !.exitapp = FALSE], err)

(* A loop that saw a request to exit hands it on when it ends.             *)
Ended(v, err) ==
    Returned([IF v.exitapp THEN Enqueue(v, Cmd("ExitApp")) ELSE v EXCEPT !.exitapp = FALSE], err)

Exit(v) ==
    LET s == [v EXCEPT !.exitapp = TRUE, !.leaving = TRUE]
    IN  IF Cancelable(v.at) THEN Ended(s, "canceled") ELSE {s}

(* BTHandleEvent of the result status of kind, which is an error.          *)
LinkClosed(v, status) ==
    Enqueue([v EXCEPT !.up = FALSE],
            Cmd(CASE status = "user" -> "InitiateDisconnect"
                  [] status # "user" /\ CrashOnLinkError -> "RadioError"
                  [] OTHER -> "ConnectionError"))
SendFailed(v) ==
    IF ~ v.up THEN {v}
    ELSE {Enqueue([v EXCEPT !.up = FALSE], Cmd(name)) :
             name \in {"ConnectionError"} \cup (IF CrashOnLinkError THEN {"RadioError"} ELSE {})}
Handled(cmd) == cmd[1] \in {"ACLDisconnect", "Send", "Radio"} /\ cmd[2] # "ok"
BTHandleEvent(v, cmd) ==
    CASE cmd[1] = "ACLDisconnect" -> {LinkClosed(v, cmd[2])}
      [] cmd[1] = "Send" -> SendFailed(v)
      [] cmd = <<"Radio", "initialized">> -> {Enqueue(v, Cmd("RadioError"))}
      [] OTHER -> Go([ProgressStart(v) EXCEPT !.back = v.at], "radioBack")

(* AppEventLoop, with a command that BTHandleEvent leaves to it.           *)
AppEventLoop(v, cmd) ==
    CASE v.state = "Disconnected" /\ cmd \in {Ok, Cmd("WaitConnection")} -> Wait(v)
      [] v.state = "Disconnected" /\ cmd = Cmd("InitiateConnect") -> Connect(v)
      [] v.state = "Connected" /\ cmd = Cmd("Unplug") -> Offline(v)
      [] v.state = "Connected" /\ cmd = Cmd("InitiateDisconnect") -> Disconnect(v)
      [] v.state = "Connected" /\ cmd = Cmd("ConnectionError") ->
            IF v.retry THEN Reconnect(v) ELSE Disconnect(v)
      [] cmd = Cmd("RadioError") -> ReinitRadio(v)
      [] cmd = Cmd("ExitApp") -> BTClose(v)
      [] OTHER -> {v}

-----------------------------------------------------------------------------
(* The rest of an iteration: the user cancels, the time is over, the report*)
(* was sent, or the loop goes on.                                          *)
Lost(v) ==
    /\ v.at \in QueueLoops
    /\ v.socket[IF v.at = "drainControl" THEN "control" ELSE "interrupt"] # "open"
Rest(v) ==
    CASE v.at = "main" -> {v}
      [] Lost(v) -> Ended(v, "error")
      [] OTHER -> {v} \cup (IF Cancelable(v.at) THEN Ended(v, "canceled") ELSE {})
                      \cup (IF v.at \in Timed THEN Ended(v, "timeout") ELSE {})
                      \cup (IF v.at \in QueueLoops THEN Ended(v, "ok") ELSE {})

(* An iteration that finds the command cmd.                                *)
Matches(at, cmd) ==
    \/ cmd[1] = "Radio" /\ at \notin QueueLoops
    \/ at \in ResultLoops /\ cmd[1] = ResultOf[at]
    \/ at \in QueueLoops /\ cmd[1] = "Send" /\ cmd[2] # "ok"
    \/ at = "prepare" /\ cmd = Cmd("Unplug")
StatusOf(cmd) == IF cmd = Cmd("Unplug") THEN "ok" ELSE cmd[2]

Iteration(v, cmd) ==
    CASE v.at = "main" -> IF Handled(cmd) THEN BTHandleEvent(v, cmd) ELSE AppEventLoop(v, cmd)
      [] v.at # "main" /\ Matches(v.at, cmd) -> Ended(v, StatusOf(cmd))
      [] v.at # "main" /\ cmd = Cmd("ExitApp") -> Exit(v)
      [] v.at \in QueueLoops /\ Handled(cmd) /\ ~ Matches(v.at, cmd) -> BTHandleEvent(v, cmd)
      [] OTHER -> Rest(v)

Running == w.at \notin Idle /\ w.fault = "none"

(* One iteration leads to the next, which takes a command or sleeps.       *)
Iterate(worlds) == w' \in worlds /\ asleep' = (w'.cmds = <<>>)

Take == /\ Running /\ ~ asleep
        /\ Iterate(Iteration([w EXCEPT !.cmds = Tail(@)], Head(w.cmds)))

(* EvtGetEvent returns an event: nothing of interest, an appStopEvent,     *)
(* which WaitForQueue overlooks when it has what it waits for, or, in the  *)
(* main loop, a tap that queues a command.                                 *)
Wake == Running /\ asleep /\ Iterate(Rest(w))
AppStop ==
    /\ Running /\ asleep /\ w.cmds = <<>> /\ ~ w.leaving
    /\ Iterate(CASE w.at = "main" -> {Enqueue([w EXCEPT !.leaving = TRUE], Cmd("ExitApp"))}
                 [] Lost(w) -> Ended(w, "error")
                 [] w.at \in QueueLoops /\ ~ Lost(w) -> Ended(w, "ok") \cup Exit(w)
                 [] OTHER -> Exit(w))
Tap(name) ==
    /\ Running /\ asleep /\ w.at = "main" /\ w.cmds = <<>>
    /\ Iterate({Enqueue(w, Cmd(name))})

(* TimerTick at the top of an iteration: a send timer, the animation.      *)
BTSendTimer ==
    /\ Running /\ asleep /\ w.cmds = <<>> /\ Open(w) # {} /\ w.at \in QueueLoops \cup {"main"}
    /\ Iterate({Enqueue(w, Cmd("RadioError"))})
AnimateTimer ==
    /\ Running /\ w.animating /\ ~ w.progressing
    /\ w' = [w EXCEPT !.fault = "assert"] /\ UNCHANGED asleep

-----------------------------------------------------------------------------
(* BTManagementCallback and BTSocketCallback.                              *)
Callback == Running /\ asleep /\ Len(w.cmds) < MaxCommands /\ UNCHANGED asleep
FirstCallback == Callback /\ w.cmds = <<>>  \* bound: for what has nothing to race with
Report(kind, status) == Enqueue(w, <<kind, status>>)

RadioState(status) ==
    /\ FirstCallback
    /\ IF w.at \in {"radioUp", "radioBack"} THEN status \in {"initialized", "fatal"}
       ELSE status = "fatal"
    /\ w' = Report("Radio", status)

AccessibilityChange ==
    /\ FirstCallback /\ w.at \in {"accessible", "mode", "restore"}
    /\ w' = Report("Accessible", "ok")

(* A link with a device that is not selected any more goes unreported.     *)
ACLConnectOutbound(status) ==
    /\ Callback /\ w.acl = "connecting"
    /\ LET s == [w EXCEPT !.acl = IF status = "ok" THEN "up" ELSE "down"]
       IN  \/ w' = Enqueue(s, <<"ACLConnect", status>>)
           \/ status = "ok" /\ w' = s

ACLDisconnect(status) ==
    /\ Callback /\ Open(w) = {}
    /\ w.acl = "dying" \/ (w.acl = "up" /\ w.cmds = <<>>)
    /\ w' = [Report("ACLDisconnect", status) EXCEPT !.acl = "down"]

AuthenticationComplete(status) ==
    /\ FirstCallback /\ w.owed = "Authenticate"
    /\ w' = [Report("Authenticate", status) EXCEPT !.owed = "nothing"]

EncryptionChange(status) ==
    /\ FirstCallback /\ w.owed = "Encrypt"
    /\ w' = [Report("Encrypt", status) EXCEPT !.owed = "nothing"]

(* A host asks for channel c, and is connected later: at once it is put on *)
(* the list (SetupNewAddress) and the animation shows that it connects.    *)
ConnectRequest(c) ==
    /\ FirstCallback /\ w.acl # "dying" /\ c \notin w.asked
    /\ w.listening /\ ~ Disconnecting(w) /\ w.socket[c] = "none"
    /\ w' = StartAnimate([w EXCEPT !.asked = @ \cup {c},
                                   !.acl = IF @ = "connecting" THEN @ ELSE "up"])

(* mutant: connections are taken while the program disconnects             *)
ConnectedInboundAlways(c, status) ==
    /\ Callback /\ c \in w.asked
    /\ LET s == [w EXCEPT !.asked = @ \ {c}]
       IN  w' = CASE status # "ok" -> Enqueue(s, <<"Connect", status>>)
                  [] status = "ok" /\ w.socket[c] = "none" ->
                        Enqueue([s EXCEPT !.socket[c] = "open"], Ok)
                  [] OTHER -> s

ConnectedInbound(c, status) ==
    /\ Callback /\ c \in w.asked
    /\ LET s == [w EXCEPT !.asked = @ \ {c}]
           expected == w.at = "wait" \/ (w.at = "main" /\ w.state = "Disconnected" /\ w.cmds = <<>>)
       IN  w' = CASE status # "ok" -> Enqueue(s, <<"Connect", status>>)
                  [] status = "ok" /\ w.listening /\ w.socket[c] = "none" /\ ~ Disconnecting(w) ->
                        Enqueue([s EXCEPT !.socket[c] = "open", !.raced = @ \/ ~ expected], Ok)
                  [] OTHER -> s

ConnectedOutbound(c, status) ==
    /\ Callback /\ w.socket[c] = "pending"
    /\ LET s == Report("Connect", status)
       IN  w' = IF status = "ok" THEN [s EXCEPT !.socket[c] = "open"]
                ELSE [s EXCEPT !.socket[c] = "dead"]

Disconnected(c, why) ==
    /\ Callback /\ c \in Open(w)
    /\ LET s == [w EXCEPT !.socket[c] = "none", !.up = FALSE, !.raced = @ \/ w.at # "main"]
       IN  w' = CASE why = "user"  -> Enqueue(s, Cmd("InitiateDisconnect"))
                  [] why = "link"  -> [s EXCEPT !.acl = "dying"]
                  [] why = "error" -> Enqueue(s, Cmd("ConnectionError"))

SendComplete(c) == FirstCallback /\ c \in Open(w) /\ w' = Report("Send", "error")

(* The host sends VIRTUAL_CABLE_UNPLUG.                                    *)
Unplug == Callback /\ "control" \in Open(w) /\ w' = Enqueue(w, Cmd("Unplug"))

-----------------------------------------------------------------------------
Fresh ==
    [at |-> "launched", back |-> "main", socket |-> NoSockets, asked |-> {}, listening |-> FALSE,
     acl |-> "down", owed |-> "nothing", up |-> FALSE, state |-> "Disconnected", retry |-> FALSE,
     starting |-> TRUE, again |-> FALSE, exitapp |-> FALSE, progressing |-> FALSE,
     animating |-> FALSE, autooff |-> "enabled", fault |-> "none", cmds |-> <<>>,
     leaving |-> FALSE, raced |-> FALSE]

Init == w = Fresh /\ asleep = FALSE

(* Up to the first event loop.                                             *)
AppInit == w.at = "launched" /\ Iterate(BTRadioInit(ProgressStart(w)))

Next ==
    \/ AppInit \/ Take \/ Wake \/ AppStop \/ BTSendTimer \/ AnimateTimer
    \/ \E name \in {"InitiateConnect", "WaitConnection", "InitiateDisconnect"} : Tap(name)
    \/ \E status \in {"initialized", "fatal"} : RadioState(status)
    \/ AccessibilityChange
    \/ \E status \in {"ok", "error"} :
          \/ ACLConnectOutbound(status) \/ EncryptionChange(status)
          \/ \E c \in Channels : ConnectedInbound(c, status) \/ ConnectedOutbound(c, status)
    \/ \E status \in {"user", "lost"} : ACLDisconnect(status)
    \/ \E status \in {"ok", "denied", "error"} : AuthenticationComplete(status)
    \/ \E c \in Channels :
          \/ ConnectRequest(c) \/ SendComplete(c)
          \/ \E why \in {"user", "link", "error"} : Disconnected(c, why)
    \/ Unplug

Spec == Init /\ [][Next]_vars
-----------------------------------------------------------------------------
Waits(name) == \E i \in 1 .. Len(w.cmds) : w.cmds[i] = Cmd(name)
AtRest == w.at = "main" /\ w.cmds = <<>> /\ w.fault = "none"

(* The state is one of Worlds; the program counts as connected             *)
(* (BTIsConnected) only in its main loop, in the loop of BTHandleEvent that *)
(* interrupts it, and while it ends.                                       *)
TypeOK == /\ w \in Worlds /\ asleep \in BOOLEAN
          /\ w.up => w.at \in {"main", "radioBack", "restore"}

(* A command to end the program that was sent is never lost, whichever loop*)
(* takes it and however that loop ends: it waits in the queue, or in the   *)
(* exitapp of the loop.                                                    *)
ExitKept == w.leaving => w.exitapp \/ Waits("ExitApp") \/ w.at \in {"restore", "closed"}

(* While BTWait waits for a host, or a disconnected program for its user, a*)
(* host can connect every channel that is not connected: there is a        *)
(* listener, and no socket of an earlier attempt in the way.  An old result*)
(* for a channel can end the wait for the new one, whose socket then stays:*)
(* see raced.                                                              *)
Reachable ==
    w.at = "wait" \/ (AtRest /\ w.state = "Disconnected") =>
        w.listening /\ (~ w.raced => \A c \in Channels : w.socket[c] \in {"none", "open"})

(* Once LinkDisconnect closes the link no channel is connected, whatever   *)
(* host was accepted while BTDisconnect sent what was left.                *)
ChannelsClosed == w.at \in {"unlink", "unlinkBusy"} => w.socket = NoSockets

(* g_connected stands for two channels, unless a result of one channel came*)
(* while the program waited for the other, or one was lost again before    *)
(* the first report was through.                                           *)
BothChannels == w.up /\ ~ w.raced => Open(w) = Channels

(* The progress form is shown exactly while something is in progress: no   *)
(* ASSERT (Progressing()) of Bluetooth.c fails, and no form stays in the   *)
(* user's way when all commands are done.                                  *)
ProgressShown ==
    /\ w.at \notin Idle \cup {"main"} => w.progressing
    /\ AtRest => ~ w.progressing

(* With the preference the auto-off timer is off as long as a connection is*)
(* active, however it was made, and on again when it is not, although every*)
(* progress form that closes enables it.                                   *)
AwakeWhileConnected ==
    DisableAutoOff /\ AtRest => (w.autooff = "disabled" <=> w.state = "Connected")

(* src/ProgressForm.c:335, "ASSERT (progressing);": the animation runs only*)
(* while the progress form is shown.                                       *)
AnimationShown == w.fault # "assert"

(* ChangeLog:96, "Really fix crash on BTRadioInit failure during startup.":*)
(* no module is used after it was closed.                                  *)
StartSafe == w.fault # "closed"
=============================================================================
