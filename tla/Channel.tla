------------------------------ MODULE Channel ------------------------------
(***************************************************************************)
(* src/Bluetooth.c, the interrupt channel: its output queue, the one       *)
(* buffer it has with the Bluetooth library, its send timer, and how       *)
(* src/Main.c connects, loses and closes the connection it stands for.     *)
(*                                                                         *)
(* The program has one thread.  Every event loop (the main one and those   *)
(* of the WaitFor functions) runs the timers, then takes a command from    *)
(* the command queue or, when there is none, sleeps in EvtGetEvent; only   *)
(* there the library calls back, any number of times.  The WaitFor loops   *)
(* drop the commands they do not wait for.                                 *)
(***************************************************************************)
EXTENDS Integers, Sequences, FiniteSets

CONSTANTS
    MaxWaiting,       \* bound: no report is added to a queue this long, but for
                      \* the last ones of a connection
    MaxCommands,      \* bound: nothing happens while so many commands wait
    QuickHost,        \* whether the host may connect again before the program is awake
    CrashOnLinkError  \* DeviceFlagBluetoothCrashOnLinkError

ASSUME ChannelAssumption ==
    /\ MaxWaiting \in Nat \ {0} /\ MaxCommands \in Nat \ {0}
    /\ QuickHost \in BOOLEAN /\ CrashOnLinkError \in BOOLEAN

(* Message handles are reused as soon as they are free.                    *)
None == 0
Ids  == 1 .. MaxWaiting + 7

VARIABLES
    c,         \* BTChannel: connected, outqueue (waiting), data, sendTimer; the buffer
               \* the library has (lib), posChanged of HIDProtocol (moved), and the
               \* command queue (cmds)
    p,         \* the program: state and retry of Main.c, g_connected, the event loop
               \* that is running (loop), whether BTConnect or BTWait sets the
               \* connection up (outbound), whether BTDisconnect is part of Reconnect
               \* (again), and the report WaitForQueue waits for (target)
    link,      \* the ACL link to the host: "down", "up", or "dying"
    asleep     \* whether the loop is in EvtGetEvent

vars == <<c, p, link, asleep>>

-----------------------------------------------------------------------------
(* The channel.                                                            *)
Enqueue(s, cmd) == [s EXCEPT !.cmds = Append(@, cmd)]
InQueue(s)      == {s.waiting[i] : i \in 1 .. Len(s.waiting)} \cup {s.data}

(* MsgIsProcessed of h.                                                    *)
Processed(s, h) == h = None \/ h \notin InQueue(s)

NewId(s) == CHOOSE i \in Ids : i \notin InQueue(s) \cup {p.target}

(* mutant: the message that is sent also stays in the queue                *)
TransmitPeeks(s, a) == [s EXCEPT !.data = Head(s.waiting), !.sendTimer = TRUE,
                                 !.lib = Head(s.waiting)]
(* mutant: SendNext returns when the library refuses, before the timer     *)
TransmitUntimed(s, a) ==
    IF a = "pending"
    THEN [s EXCEPT !.waiting = Tail(@), !.data = Head(s.waiting), !.sendTimer = TRUE,
                   !.lib = Head(s.waiting)]
    ELSE Enqueue([s EXCEPT !.waiting = Tail(@), !.data = Head(s.waiting)], "Sent")

(* The end of SendNext, when BtLibSocketSend answers a.  Also a buffer     *)
(* that was not accepted stays, and starts the timer.                      *)
Transmit(s, a) ==
    LET t == [s EXCEPT !.waiting = Tail(@), !.data = Head(s.waiting), !.sendTimer = TRUE,
                       !.lib = IF a = "pending" THEN Head(s.waiting) ELSE None]
    IN  IF a = "pending" THEN t ELSE Enqueue(t, "SendError")

SendNext(s, a, disconnecting) ==
    IF ~ s.connected THEN [s EXCEPT !.waiting = <<>>]
    ELSE IF s.data # None THEN s
    ELSE IF s.waiting # <<>> THEN Transmit(s, a)
    ELSE IF s.moved /\ ~ disconnecting
    THEN Transmit([s EXCEPT !.waiting = <<NewId(s)>>, !.moved = FALSE], a)
    ELSE s

(* SendData: MsgAddPtr, whose callback flushes or sends.                   *)
SendData(s, a) == SendNext([s EXCEPT !.waiting = Append(@, NewId(s))], a, FALSE)

(* HIDPSendReport(true): a mouse report and a keyboard report.  HIDPReset  *)
(* ends with it.                                                           *)
FullReport(s, a) == SendData(SendData([s EXCEPT !.moved = FALSE], a), a)

DataCleanup(s) == [s EXCEPT !.data = None, !.sendTimer = FALSE]

(* mutant: a message that was being sent stays in c->data                  *)
ClosedBusy(s) == [s EXCEPT !.connected = FALSE, !.lib = None, !.waiting = <<>>]

(* The end of Disconnect: a buffer the library still has is forgotten, and *)
(* nothing cancels its timer.                                              *)
Closed(s) == [s EXCEPT !.connected = FALSE, !.data = None, !.lib = None, !.waiting = <<>>]
-----------------------------------------------------------------------------
Init ==
    /\ c = [connected |-> FALSE, waiting |-> <<>>, data |-> None, sendTimer |-> FALSE,
            lib |-> None, moved |-> FALSE, cmds |-> <<>>]
    /\ p = [loop |-> "main", state |-> "Disconnected", retry |-> FALSE, connected |-> FALSE,
            outbound |-> FALSE, again |-> FALSE, target |-> None]
    /\ link = "down" /\ asleep = FALSE

Answers       == {"pending", "error"}
Disconnecting == p.loop \in {"drain", "unlink"}
Callback      == asleep /\ Len(c.cmds) < MaxCommands

(* ConnectedInbound, or ConnectedOutbound while Connect waits for it.  A   *)
(* host is refused during BTDisconnect, and nobody listens while the radio *)
(* restarts.                                                               *)
Connected ==
    /\ Callback /\ ~ c.connected /\ ~ Disconnecting /\ p.loop # "radio"
    /\ link # "dying" /\ link' = "up"
    /\ QuickHost \/ \A i \in 1 .. Len(c.cmds) :
                       c.cmds[i] \notin {"InitiateDisconnect", "ConnectionError"}
    /\ c' = Enqueue([c EXCEPT !.connected = TRUE], "Connected")
    /\ UNCHANGED <<p, asleep>>

ConnectFailed ==
    /\ Callback /\ ~ c.connected /\ p.loop = "connect"
    /\ c' = Enqueue(c, "ConnectFailed")
    /\ UNCHANGED <<p, link, asleep>>

(* mutant: no command for an error, as for a broken link                   *)
DisconnectedSilent(why) ==
    /\ Callback /\ c.connected
    /\ c' = [DataCleanup(c) EXCEPT !.lib = None, !.connected = FALSE]
    /\ p' = [p EXCEPT !.connected = FALSE]
    /\ link' = IF why = "link" THEN "dying" ELSE link
    /\ UNCHANGED asleep

(* The host closes the channel, the link breaks, or something goes wrong.  *)
Disconnected(why) ==
    /\ Callback /\ c.connected
    /\ LET s == [DataCleanup(c) EXCEPT !.lib = None, !.connected = FALSE]
       IN  c' = CASE why = "user"  -> Enqueue(s, "InitiateDisconnect")
                  [] why = "link"  -> s
                  [] why = "error" -> Enqueue(s, "ConnectionError")
    /\ p' = [p EXCEPT !.connected = FALSE]
    /\ link' = IF why = "link" THEN "dying" ELSE link
    /\ UNCHANGED asleep

(* When its channels are gone the link follows.                            *)
ACLDisconnect(why) ==
    /\ asleep /\ link = "dying" /\ link' = "down"
    /\ c' = Enqueue(c, why)
    /\ UNCHANGED <<p, asleep>>

(* mutant: the next message is not sent                                    *)
SendCompleteLast(a) ==
    /\ Callback /\ c.lib # None
    /\ c' = Enqueue([DataCleanup(c) EXCEPT !.lib = None], "Sent")
    /\ UNCHANGED <<p, link, asleep>>

SendComplete(a) ==
    /\ Callback /\ c.lib # None
    /\ c' = Enqueue(SendNext([DataCleanup(c) EXCEPT !.lib = None], a, Disconnecting), "Sent")
    /\ UNCHANGED <<p, link, asleep>>

SendFailed ==
    /\ Callback /\ c.lib # None
    /\ c' = Enqueue([DataCleanup(c) EXCEPT !.lib = None], "SendError")
    /\ UNCHANGED <<p, link, asleep>>

(* The host sends VIRTUAL_CABLE_UNPLUG.                                    *)
Unplug ==
    /\ Callback /\ c.connected
    /\ c' = Enqueue(c, "UnplugReceived")
    /\ UNCHANGED <<p, link, asleep>>

-----------------------------------------------------------------------------
(* What the program does next with the channel s.                          *)
Go(s, r) == c' = s /\ p' = r
Main(s, state, retry, connected) ==
    Go(s, [p EXCEPT !.loop = "main", !.target = None, !.state = state, !.retry = retry,
                    !.connected = connected])

(* BTConnect and BTWait, as far as they get without the host.              *)
SetUp(s, outbound, retry) ==
    Go(s, [p EXCEPT !.loop = IF s.connected THEN "settle" ELSE "connect",
                    !.state = IF outbound THEN "Disconnected" ELSE "Waiting",
                    !.target = None, !.connected = FALSE, !.outbound = outbound,
                    !.retry = retry])

Connect(s) == IF p.connected THEN Main(s, "Connected", TRUE, TRUE) ELSE SetUp(s, TRUE, p.retry)
Wait(s)    == IF p.connected THEN Main(s, "Connected", FALSE, TRUE) ELSE SetUp(s, FALSE, p.retry)

(* BTConnect or BTWait returns an error; unless the user canceled, Wait    *)
(* tries again.                                                            *)
Failed(s, canceled) ==
    IF p.outbound THEN Main(Closed(s), "Disconnected", FALSE, FALSE)
    ELSE IF canceled THEN Main(s, "Disconnected", FALSE, FALSE)
    ELSE SetUp(s, FALSE, p.retry)

(* BTDisconnect in its three parts: what is left is sent, the channel is   *)
(* closed, and the link is.                                                *)
Unlinked(s, again) ==
    IF again THEN SetUp(s, TRUE, p.retry) ELSE Main(s, "Disconnected", FALSE, FALSE)

Drained(s, again) ==
    IF link = "down" THEN Unlinked(Closed(s), again) /\ UNCHANGED link
    ELSE /\ Go(Closed(s), [p EXCEPT !.loop = "unlink", !.target = None, !.again = again,
                                    !.connected = FALSE])
         /\ link' = "dying"

Disconnect(s, a, again) ==
    LET reset == IF p.connected THEN FullReport(s, a) ELSE s
        sent  == SendNext(reset, a, TRUE)
        last  == IF sent.waiting = <<>> THEN None ELSE sent.waiting[Len(sent.waiting)]
    IN  IF s.connected /\ reset.waiting # <<>> /\ last # None
        THEN /\ Go(sent, [p EXCEPT !.loop = "drain", !.target = last, !.again = again,
                                   !.connected = FALSE])
             /\ UNCHANGED link
        ELSE Drained(reset, again)

(* The first report of a new connection.                                   *)
FirstReport(s, a) ==
    LET sent == FullReport(s, a)
    IN  IF ~ s.connected THEN Failed(sent, FALSE)
        ELSE Go(sent, [p EXCEPT !.loop = "first", !.target = sent.waiting[Len(sent.waiting)]])

(* ReinitRadio closes everything first.                                    *)
ReinitRadio(s) ==
    /\ Go(Closed(s), [p EXCEPT !.loop = "radio", !.connected = FALSE])
    /\ link' = "down"

(* The end of an iteration of the running loop: it goes on, or it has what *)
(* it waits for, is canceled, fails or times out.                          *)
Iterated(s, a) ==
    \/ /\ p.loop \in {"main", "unlink"} /\ Go(s, p)
       /\ UNCHANGED link
    \/ /\ p.loop = "connect"
       /\ Go(s, p) \/ Failed(s, TRUE)
       /\ UNCHANGED link
    \/ /\ p.loop = "settle"
       /\ Go(s, p) \/ (Len(s.waiting) < MaxWaiting /\ FirstReport(s, a))
       /\ UNCHANGED link
    \/ /\ p.loop = "first"
       /\ \/ ~ s.connected /\ Failed(s, FALSE)
          \/ s.connected /\ Processed(s, p.target) /\ Main(s, "Connected", p.outbound, TRUE)
          \/ s.connected /\ ~ Processed(s, p.target)
             /\ (Go(s, p) \/ Failed(s, TRUE) \/ Failed(s, FALSE))
       /\ UNCHANGED link
    \/ /\ p.loop = "drain"
       /\ \/ s.connected /\ ~ Processed(s, p.target) /\ Go(s, p) /\ UNCHANGED link
          \/ Drained(s, p.again)
    \/ /\ p.loop = "radio"
       /\ \/ Go(s, p)
          \/ Main(Enqueue(s, "ExitApp"), p.state, p.retry, FALSE)
          \/ IF p.state = "Connected" THEN Unlinked(s, p.retry)
             ELSE Main(s, "Disconnected", p.retry, FALSE)
       /\ UNCHANGED link

(* BTHandleEvent, for a link that was closed.                              *)
LinkClosed(s, why) ==
    Go(Enqueue(s, CASE why = "LinkUser"  -> "InitiateDisconnect"
                    [] CrashOnLinkError  -> "RadioError"
                    [] OTHER             -> "ConnectionError"),
       [p EXCEPT !.connected = FALSE])

(* A command in the main loop: BTHandleEvent, then AppEventLoop.           *)
AppEventLoop(s, cmd, a) ==
    LET Ignore == Go(s, p)
        keep == UNCHANGED link
    IN  CASE cmd = "Connected" /\ p.state = "Disconnected" -> Wait(s) /\ keep
          [] cmd = "SendError" /\ p.connected ->
                Go(Enqueue(s, "ConnectionError"), [p EXCEPT !.connected = FALSE]) /\ keep
          [] cmd \in {"LinkUser", "LinkLost"} -> LinkClosed(s, cmd) /\ keep
          [] cmd = "InitiateConnect" /\ p.state = "Disconnected" -> Connect(s) /\ keep
          [] cmd = "WaitConnection" /\ p.state = "Disconnected" -> Wait(s) /\ keep
          [] cmd = "UnplugReceived" /\ p.state = "Connected" ->
                Main(s, "Disconnected", FALSE, p.connected) /\ keep
          [] cmd = "ConnectionError" /\ p.state = "Connected" -> Disconnect(s, a, p.retry)
          [] cmd = "RadioError" -> ReinitRadio(s)
          [] cmd = "InitiateDisconnect" /\ p.state = "Connected" -> Disconnect(s, a, FALSE)
          [] cmd = "ExitApp" -> Go(s, [p EXCEPT !.loop = "exit"]) /\ keep
          [] OTHER -> Ignore /\ keep

(* An iteration that finds a command.                                      *)
Take(a) ==
    /\ ~ asleep /\ c.cmds # <<>> /\ p.loop # "exit"
    /\ LET cmd == Head(c.cmds)
           s == [c EXCEPT !.cmds = Tail(@)]
           linkCmd == cmd \in {"LinkUser", "LinkLost"}
           sending == p.loop \in {"first", "drain"}
       IN  \/ p.loop = "main" /\ AppEventLoop(s, cmd, a)
           \/ /\ p.loop = "connect" /\ cmd = "Connected"
              /\ Go(s, [p EXCEPT !.loop = IF p.outbound \/ s.connected THEN "settle" ELSE @])
              /\ UNCHANGED link
           \/ p.loop = "connect" /\ cmd = "ConnectFailed" /\ Failed(s, FALSE) /\ UNCHANGED link
           \/ p.loop = "first" /\ cmd = "SendError" /\ Failed(s, FALSE) /\ UNCHANGED link
           \/ p.loop = "drain" /\ cmd = "SendError" /\ Drained(s, p.again)
           \/ sending /\ linkCmd /\ LinkClosed(s, cmd) /\ UNCHANGED link
           \/ p.loop = "unlink" /\ linkCmd /\ Unlinked(s, p.again) /\ UNCHANGED link
           \/ /\ \/ p.loop \in {"settle", "radio"}
                 \/ p.loop = "connect" /\ cmd \notin {"Connected", "ConnectFailed"}
                 \/ sending /\ cmd # "SendError" /\ ~ linkCmd
                 \/ p.loop = "unlink" /\ ~ linkCmd
              /\ Iterated(s, a)
    /\ UNCHANGED asleep

(* An iteration that finds none sleeps until EvtGetEvent returns an event. *)
Sleep == /\ ~ asleep /\ c.cmds = <<>> /\ p.loop # "exit"
         /\ asleep' = TRUE
         /\ UNCHANGED <<c, p, link>>

Wake(a) == asleep /\ asleep' = FALSE /\ Iterated(c, a)

(* Bounds on what is done from outside.                                    *)
Quiet == Len(c.cmds) < MaxCommands /\ Len(c.waiting) < MaxWaiting

(* The user, or a timer of another module, makes a report.                 *)
Report(a) == asleep /\ asleep' = FALSE /\ Quiet /\ Iterated(SendData(c, a), a)

(* HIDPMouseMove and BTDataReady.                                          *)
MouseMove(a) ==
    /\ asleep /\ asleep' = FALSE /\ Quiet
    /\ Iterated(IF p.connected /\ c.data = None THEN SendData([c EXCEPT !.moved = FALSE], a)
                ELSE [c EXCEPT !.moved = TRUE], a)

(* Menus and buttons.                                                      *)
UserCommand(cmd) ==
    /\ asleep /\ asleep' = FALSE /\ Quiet /\ p.loop = "main"
    /\ Iterated(Enqueue(c, cmd), "pending")

(* mutant: a send that timed out is only logged                            *)
BTSendTimerLogs == /\ ~ asleep /\ c.sendTimer /\ p.loop # "exit"
                   /\ c' = [c EXCEPT !.sendTimer = FALSE]
                   /\ UNCHANGED <<p, link, asleep>>

(* TimerTick, at the top of every iteration.                               *)
BTSendTimer ==
    /\ ~ asleep /\ c.sendTimer /\ p.loop # "exit"
    /\ c' = Enqueue([c EXCEPT !.sendTimer = FALSE], "RadioError")
    /\ UNCHANGED <<p, link, asleep>>

Next ==
    \/ Connected \/ ConnectFailed \/ SendFailed \/ Unplug
    \/ \E why \in {"user", "link", "error"} : Disconnected(why)
    \/ \E why \in {"LinkUser", "LinkLost"} : ACLDisconnect(why)
    \/ \E a \in Answers : SendComplete(a) \/ Take(a) \/ Wake(a) \/ Report(a) \/ MouseMove(a)
    \/ \E cmd \in {"InitiateConnect", "WaitConnection", "InitiateDisconnect"} : UserCommand(cmd)
    \/ Sleep \/ BTSendTimer

Spec == Init /\ [][Next]_vars

(* The loops run, their timeouts and the send timer end, and the library   *)
(* reports the end of a link.  Nothing is assumed of the host, the user,   *)
(* or the library's handling of a message.                                 *)
Timed    == {"settle", "first", "drain", "radio"}
TimesOut == \E a \in Answers : Wake(a) /\ p.loop \in Timed /\ p'.loop # p.loop
FairSpec ==
    /\ Spec
    /\ WF_vars(Sleep) /\ WF_vars(\E a \in Answers : Take(a)) /\ WF_vars(\E a \in Answers : Wake(a))
    /\ SF_vars(BTSendTimer) /\ SF_vars(TimesOut)
    /\ SF_vars(\E why \in {"LinkUser", "LinkLost"} : ACLDisconnect(why))
-----------------------------------------------------------------------------
Commands == {"Connected", "ConnectFailed", "Sent", "SendError", "LinkUser", "LinkLost",
             "InitiateConnect", "WaitConnection", "InitiateDisconnect", "ConnectionError",
             "RadioError", "UnplugReceived", "ExitApp"}
Loops    == {"main", "connect", "settle", "first", "drain", "unlink", "radio", "exit"}

(* The types of the state.                                                 *)
TypeOK ==
    /\ c \in [connected : BOOLEAN, waiting : Seq(Ids), data : Ids \cup {None},
              sendTimer : BOOLEAN, lib : Ids \cup {None}, moved : BOOLEAN,
              cmds : Seq(Commands)]
    /\ p \in [loop : Loops, state : {"Disconnected", "Waiting", "Connected"}, retry : BOOLEAN,
              connected : BOOLEAN, outbound : BOOLEAN, again : BOOLEAN,
              target : Ids \cup {None}]
    /\ link \in {"down", "up", "dying"} /\ asleep \in BOOLEAN

(* The buffer the library is sending from is the one the program keeps     *)
(* locked in c->data, and there is none without a connection: nothing is   *)
(* freed under a send, however completions, errors, disconnections and     *)
(* Disconnect follow each other.  The queue keeps its bound.               *)
BufferOwned == /\ TypeOK
               /\ Len(c.waiting) <= MaxWaiting + 3
               /\ c.lib # None => c.lib = c.data
               /\ ~ c.connected => c.data = None

(* Every message is in one place only: none is sent twice.                 *)
SentOnce ==
    /\ \A i, j \in 1 .. Len(c.waiting) : c.waiting[i] = c.waiting[j] => i = j
    /\ c.data # None => \A i \in 1 .. Len(c.waiting) : c.waiting[i] # c.data

Bad == {"SendError", "LinkUser", "LinkLost", "InitiateDisconnect", "ConnectionError", "RadioError"}
Trouble == link = "dying" \/ \E i \in 1 .. Len(c.cmds) : c.cmds[i] \in Bad
Online  == p.state = "Connected" /\ p.loop = "main"

(* While the program counts as connected no report waits on an idle        *)
(* channel, unless the connection is about to be closed.                   *)
NothingStalls == Online /\ c.connected /\ c.waiting # <<>> /\ c.data = None => Trouble

(* While the program counts as connected (g_connected) the channel is      *)
(* connected and only the main loop runs, and a message in the hands of    *)
(* the library has a timer, or the program is about to learn that it ran   *)
(* out.                                                                    *)
SendsGuarded ==
    /\ p.connected => c.connected /\ p.loop \in {"main", "exit"}
    /\ Online /\ c.data # None =>
          c.sendTimer \/ \E i \in 1 .. Len(c.cmds) : c.cmds[i] = "RadioError"

(* A message that the library never completes does not hang a connected    *)
(* program: the send timer ends the message or the connection.             *)
SendEnds == (Online /\ c.data # None) ~> (c.data = None \/ ~ Online)

(* A program that counts as connected and has lost its channel notices it, *)
(* or its host has come back.                                              *)
LossNoticed == (p.state = "Connected" /\ ~ c.connected) ~> (p.state # "Connected" \/ c.connected \/ p.loop = "exit")
=============================================================================
