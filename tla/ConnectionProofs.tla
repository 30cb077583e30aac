-------------------------- MODULE ConnectionProofs --------------------------
(***************************************************************************)
(* For every length of the command queue: what holds of the program's      *)
(* state whichever loop is running, whatever waits in the queue, and       *)
(* however each loop ends.                                                 *)
(*                                                                         *)
(* A function of the model leads from a world to those in which the next   *)
(* loop runs.  For each there is a lemma: from a world that is Ready (the  *)
(* code between two loops) to one that is Sound (at a loop).               *)
(***************************************************************************)
EXTENDS Connection, SequenceTheorems, TLAPS

(* What can make a disconnected program wait; what comes only from the     *)
(* program itself; and what makes it connect or disconnect.                *)
Triggers == {Ok, Cmd("WaitConnection")}
Late     == {Cmd("RadioError"), Cmd("ExitApp")}
Blockers == {Cmd("InitiateConnect"), Cmd("InitiateDisconnect"), Cmd("ConnectionError"),
             Cmd("RadioError")}
Starts   == {"launched", "radioUp", "accessible", "mode"}
Ends     == {"restore", "closed"}
Silent   == {"link", "authenticate", "encrypt", "prepare", "ignoring", "firstOut"} \cup Closing
Paired   == {"prepare", "ignoring", "firstOut", "settle", "firstIn"}

Has(cmds, C) == \E i \in 1 .. Len(cmds) : cmds[i] \in C
NoneAfter(cmds, B, C) ==
    \A i, j \in 1 .. Len(cmds) : i < j /\ cmds[i] \in B => cmds[j] \notin C
AtMostOne(cmds, C) == \A i, j \in 1 .. Len(cmds) : cmds[i] \in C /\ cmds[j] \in C => i = j
Both(socket)    == \A c \in Channels : socket[c] = "open"
Settled(socket) == \A c \in Channels : socket[c] \notin {"pending", "dead"}
At(v, L) == v.at \in L \/ (v.at = "radioBack" /\ v.back \in L)

Typed(v) == v \in Worlds
Counted(v) == v.up => v.at \in {"main", "restore"} \/ (v.at = "radioBack" /\ v.back = "main")

(* A request to exit waits in the queue, or in exitapp of a loop that      *)
(* cannot be canceled.                                                     *)
Kept(v) == /\ v.exitapp => v.at \in Fixed
           /\ v.leaving /\ v.at \notin Ends => v.exitapp \/ Has(v.cmds, {Cmd("ExitApp")})
Unplugged(v) == /\ v.at \in {"unlink", "unlinkBusy"} => v.socket = NoSockets
                /\ At(v, {"drainControl"}) => v.socket["interrupt"] = "none"
Shown(v) == /\ v.at \notin Idle \cup {"main"} => v.progressing
            /\ v.at = "main" /\ v.progressing => Has(v.cmds, Late)
Awake(v) == /\ v.at # "closed" /\ v.fault = "none" => v.autooff # "closed"
            /\ DisableAutoOff /\ v.at = "main" /\ ~ v.progressing
                  => (v.autooff = "disabled" <=> v.state = "Connected")

(* While the radio starts nothing is known of a host.                      *)
Begun(v) == /\ v.starting => v.at \in Starts \cup Ends /\ v.state = "Disconnected"
            /\ v.at \in Starts => /\ ~ v.listening /\ v.socket = NoSockets
                                  /\ ~ Has(v.cmds, Triggers)
            /\ v.at = "launched" => v.fault = "none"
            /\ ~ v.listening => v.asked = {}

(* Without a listener the program is about to end, and waits for no host.  *)
Leaves(v) == v.leaving /\ ~ Has(v.cmds, Triggers)
Dark(v) == ~ v.listening /\ v.at \notin Starts \cup Ends =>
              /\ Leaves(v) /\ ~ At(v, {"wait", "settle", "firstIn"})
              /\ \A c \in Channels : v.socket[c] = "pending" => v.at = c

(* If no result came out of turn, a result that waits is one of the channel*)
(* that the loop waits for.                                                *)
Calm(v) == ~ v.raced =>
    /\ \A c \in Channels : v.socket[c] \in {"pending", "dead"} => v.at = c
    /\ v.at \in Channels => /\ Has(v.cmds, {Ok}) => v.socket[v.at] = "open"
                            /\ AtMostOne(v.cmds, {Ok})
    /\ At(v, Silent) => ~ Has(v.cmds, {Ok})
    /\ NoneAfter(v.cmds, Blockers, {Ok})
    /\ v.up \/ At(v, Paired) => Both(v.socket)
    /\ v.at = "interrupt" => v.socket["control"] = "open"

Sound(v) ==
    /\ Typed(v) /\ Counted(v) /\ Kept(v) /\ Unplugged(v) /\ Shown(v) /\ Awake(v) /\ Begun(v)
    /\ Dark(v) /\ Calm(v) /\ NoneAfter(v.cmds, Late, Triggers)

(* What comes only from the program is never behind what a callback adds.  *)
Sleeping(v, z) ==
    /\ z => /\ ~ Has(v.cmds, Late)
            /\ v.at # "main" /\ ~ v.raced => ~ Has(v.cmds, Blockers)
    /\ ~ z /\ v.at \notin Idle => v.cmds # <<>>

IInv == Sound(w) /\ Sleeping(w, asleep) /\ asleep \in BOOLEAN

-----------------------------------------------------------------------------
(* Between two loops.                                                      *)
Moving(v) ==
    /\ Typed(v) /\ ~ v.exitapp /\ v.fault = "none" /\ v.autooff # "closed"
    /\ v.leaving => Has(v.cmds, {Cmd("ExitApp")})
    /\ ~ v.listening => v.asked = {}
    /\ NoneAfter(v.cmds, Late, Triggers)
    /\ ~ v.raced => NoneAfter(v.cmds, Blockers, {Ok})

(* On the way to a connection or from it.                                  *)
Ready(v) ==
    /\ Moving(v) /\ ~ v.up /\ ~ v.starting /\ v.progressing
    /\ ~ v.raced => ~ Has(v.cmds, {Ok}) /\ Settled(v.socket)
    /\ ~ v.listening => Leaves(v) /\ \A c \in Channels : v.socket[c] # "pending"

(* What the rest of the state has in common.                               *)
Same(u, v) ==
    /\ u.socket = v.socket /\ u.asked = v.asked /\ u.listening = v.listening /\ u.up = v.up
    /\ u.starting = v.starting /\ u.exitapp = v.exitapp /\ u.fault = v.fault
    /\ u.cmds = v.cmds /\ u.leaving = v.leaving /\ u.raced = v.raced

LEMMA SameReady ==
    ASSUME NEW v, Ready(v), NEW u, u \in Worlds, Same(u, v), u.progressing, u.autooff # "closed"
    PROVE  Ready(u)
  BY DEF Ready, Moving, Same, Typed, Leaves

LEMMA ChannelNames == Channels = {"control", "interrupt"} /\ "control" # "interrupt"
  BY DEF Channels

LEMMA LoopNames ==
    /\ ResultLoops = {"radioUp", "accessible", "mode", "radioBack", "link", "authenticate",
                      "encrypt", "control", "interrupt", "ignoring", "wait", "settle", "unlink",
                      "unlinkBusy", "restore"}
    /\ Loops = {"radioUp", "accessible", "mode", "radioBack", "link", "authenticate",
                "encrypt", "control", "interrupt", "ignoring", "wait", "settle", "unlink",
                "unlinkBusy", "restore", "firstOut", "firstIn", "drainInterrupt", "drainControl",
                "launched", "closed", "prepare", "main"}
  BY DEF Loops, ResultLoops, ResultOf, QueueLoops, Idle

(* The forms and the auto-off timer leave everything else alone.           *)
Still(u, v) == Same(u, v) /\ u.at = v.at /\ u.back = v.back /\ u.state = v.state

LEMMA AutoOffFacts ==
    ASSUME NEW v \in Worlds, v.autooff # "closed", NEW enable \in BOOLEAN
    PROVE  /\ AutoOffEnable(v, enable) \in Worlds /\ Still(AutoOffEnable(v, enable), v)
           /\ AutoOffEnable(v, enable).autooff = IF enable THEN "enabled" ELSE "disabled"
           /\ AutoOffEnable(v, enable).progressing = v.progressing
<1> DEFINE u == [v EXCEPT !.autooff = IF enable THEN "enabled" ELSE "disabled"]
<1>1. AutoOffEnable(v, enable) = u
  BY DEF AutoOffEnable
<1>2. u \in Worlds /\ u.autooff = (IF enable THEN "enabled" ELSE "disabled")
  BY DEF Worlds
<1>3. Still(u, v) /\ u.progressing = v.progressing
  BY DEF Worlds, Still, Same
<1>4. QED
  BY <1>1, <1>2, <1>3

LEMMA StopFacts ==
    ASSUME NEW v \in Worlds, v.autooff # "closed"
    PROVE  /\ ProgressStop(v) \in Worlds /\ Still(ProgressStop(v), v)
           /\ ~ ProgressStop(v).progressing
           /\ ProgressStop(v).autooff = IF v.progressing THEN "enabled" ELSE v.autooff
<1>1. CASE ~ v.progressing
  BY <1>1 DEF ProgressStop, Still, Same
<1>2. CASE v.progressing
  <2> DEFINE u == [v EXCEPT !.progressing = FALSE, !.animating = FALSE]
  <2>1. u \in Worlds /\ ~ u.progressing /\ u.autooff = v.autooff
    BY DEF Worlds
  <2>2. Still(u, v)
    BY DEF Worlds, Still, Same
  <2>3. ProgressStop(v) = AutoOffEnable(u, TRUE) /\ TRUE \in BOOLEAN
    BY <1>2 DEF ProgressStop
  <2> HIDE DEF u
  <2>4. /\ AutoOffEnable(u, TRUE) \in Worlds /\ Still(AutoOffEnable(u, TRUE), u)
        /\ AutoOffEnable(u, TRUE).autooff = "enabled" /\ ~ AutoOffEnable(u, TRUE).progressing
    BY <2>1, AutoOffFacts
  <2>5. QED
    BY <1>2, <2>2, <2>3, <2>4 DEF Still, Same
<1>3. QED
  BY <1>1, <1>2

LEMMA StartFacts ==
    ASSUME NEW v \in Worlds, v.autooff # "closed"
    PROVE  /\ ProgressStart(v) \in Worlds /\ Still(ProgressStart(v), v)
           /\ ProgressStart(v).progressing /\ ProgressStart(v).autooff = "disabled"
<1> DEFINE u == IF v.progressing THEN v ELSE StartAnimate([v EXCEPT !.progressing = TRUE])
<1>1. u \in Worlds /\ u.progressing /\ u.autooff = v.autooff /\ Still(u, v)
  <2>1. CASE v.progressing
    BY <2>1 DEF Still, Same
  <2>2. CASE ~ v.progressing
    BY <2>2 DEF Worlds, StartAnimate, Still, Same
  <2>3. QED
    BY <2>1, <2>2
<1>3. ProgressStart(v) = AutoOffEnable(u, FALSE) /\ FALSE \in BOOLEAN
  BY DEF ProgressStart
<1> HIDE DEF u
<1>4. /\ AutoOffEnable(u, FALSE) \in Worlds /\ Still(AutoOffEnable(u, FALSE), u)
      /\ AutoOffEnable(u, FALSE).autooff = "disabled" /\ AutoOffEnable(u, FALSE).progressing
  BY <1>1, AutoOffFacts
<1>5. QED
  BY <1>1, <1>3, <1>4 DEF Still, Same
-----------------------------------------------------------------------------
(* The ends of Connect, Wait, Disconnect and Reconnect.                    *)
Landing(v) ==
    /\ Moving(v) /\ ~ v.starting
    /\ ~ v.raced => Settled(v.socket) /\ (v.up => Both(v.socket))
    /\ ~ v.listening => Leaves(v) /\ \A c \in Channels : v.socket[c] # "pending"

LEMMA ReadyLands == ASSUME NEW v, Ready(v) PROVE Landing(v)
  BY DEF Ready, Landing

(* A world of the main loop, when no form is shown.                        *)
LEMMA LandedSound ==
    ASSUME NEW v, Landing(v), NEW u \in Worlds, Same(u, v), u.at = "main", ~ u.progressing,
           u.autooff # "closed", DisableAutoOff => (u.autooff = "disabled" <=> u.state = "Connected")
    PROVE  Sound(u)
<1>1. "main" \notin Fixed \cup Channels \cup Starts \cup Ends \cup Silent \cup Paired
      /\ "main" \notin {"unlink", "unlinkBusy", "drainControl", "wait", "settle", "firstIn"}
  BY DEF Fixed, Channels, Starts, Ends, Silent, Closing, Paired
<1>2. Typed(u) /\ Counted(u) /\ Kept(u) /\ Shown(u) /\ Awake(u) /\ Begun(u)
  BY <1>1 DEF Landing, Moving, Same, Typed, Counted, Kept, Shown, Awake, Begun
<1>3. Unplugged(u) /\ Dark(u)
  BY <1>1 DEF Landing, Moving, Same, Unplugged, Dark, At, Leaves
<1>4. Calm(u)
  BY <1>1 DEF Landing, Moving, Same, Calm, At, Settled, Both
<1>5. QED
  BY <1>2, <1>3, <1>4 DEF Sound, Landing, Moving, Same

LEMMA OnlineSound ==
    ASSUME NEW v, Landing(v), NEW retry \in BOOLEAN, NEW u \in Online(v, retry)
    PROVE  Sound(u)
<1> DEFINE s == [v EXCEPT !.state = "Connected", !.retry = retry, !.at = "main"]
           t == ProgressStop(s)
<1>1. v \in Worlds /\ v.autooff # "closed"
  BY DEF Landing, Moving, Typed
<1>2. s \in Worlds /\ Same(s, v) /\ s.at = "main" /\ s.state = "Connected" /\ s.autooff = v.autooff
  <2>1. "main" \in Loops
    BY LoopNames
  <2>2. s \in Worlds
    BY <1>1, <2>1 DEF Worlds
  <2>3. Same(s, v)
    BY <1>1 DEF Worlds, Same
  <2>4. QED
    BY <1>1, <2>2, <2>3 DEF Worlds
<1>3. u = IF DisableAutoOff THEN AutoOffEnable(t, FALSE) ELSE t
  BY DEF Online
<1> HIDE DEF s
<1>4. t \in Worlds /\ Still(t, s) /\ ~ t.progressing /\ t.autooff # "closed"
  BY <1>1, <1>2, StopFacts
<1> HIDE DEF t
<1>5. /\ u \in Worlds /\ Still(u, t) /\ ~ u.progressing /\ u.autooff # "closed"
      /\ DisableAutoOff => u.autooff = "disabled"
  <2>1. CASE DisableAutoOff
    <3>1. FALSE \in BOOLEAN
      OBVIOUS
    <3>2. /\ AutoOffEnable(t, FALSE) \in Worlds /\ Still(AutoOffEnable(t, FALSE), t)
          /\ AutoOffEnable(t, FALSE).autooff = (IF FALSE THEN "enabled" ELSE "disabled")
          /\ AutoOffEnable(t, FALSE).progressing = t.progressing
      BY <1>4, <3>1, AutoOffFacts, Zenon
    <3>3. QED
      BY <2>1, <1>3, <1>4, <3>2
  <2>2. CASE ~ DisableAutoOff
    BY <2>2, <1>3, <1>4 DEF Still, Same
  <2>3. QED
    BY <2>1, <2>2
<1>6. Same(u, v) /\ u.at = "main" /\ u.state = "Connected"
  BY <1>2, <1>4, <1>5 DEF Still, Same
<1>7. QED
  BY <1>5, <1>6, LandedSound

LEMMA OfflineSound ==
    ASSUME NEW v, Landing(v), NEW u \in Offline(v)
    PROVE  Sound(u)
<1> DEFINE s == [v EXCEPT !.state = "Disconnected", !.retry = FALSE, !.at = "main"]
           t == ProgressStop(s)
<1>1. v \in Worlds /\ v.autooff # "closed"
  BY DEF Landing, Moving, Typed
<1>2. s \in Worlds /\ Same(s, v) /\ s.at = "main" /\ s.state = "Disconnected" /\ s.autooff = v.autooff
  <2>1. "main" \in Loops
    BY LoopNames
  <2>2. s \in Worlds
    BY <1>1, <2>1 DEF Worlds
  <2>3. Same(s, v)
    BY <1>1 DEF Worlds, Same
  <2>4. QED
    BY <1>1, <2>2, <2>3 DEF Worlds
<1>3. u = AutoOffEnable(t, TRUE) /\ TRUE \in BOOLEAN
  BY DEF Offline
<1> HIDE DEF s
<1>4. t \in Worlds /\ Still(t, s) /\ ~ t.progressing /\ t.autooff # "closed"
  BY <1>1, <1>2, StopFacts
<1> HIDE DEF t
<1>5. u \in Worlds /\ Still(u, t) /\ ~ u.progressing /\ u.autooff = "enabled"
  BY <1>3, <1>4, AutoOffFacts
<1>6. Same(u, v) /\ u.at = "main" /\ u.state = "Disconnected"
  BY <1>2, <1>4, <1>5 DEF Still, Same
<1>7. QED
  BY <1>5, <1>6, LandedSound

LEMMA GoTyped ==
    ASSUME NEW v, Typed(v), NEW at \in Loops
    PROVE  Typed([v EXCEPT !.at = at])
  BY DEF Typed, Worlds

(* A loop that waits for the library.                                      *)
LEMMA LoopSound ==
    ASSUME NEW v, Ready(v),
           NEW at \in {"link", "authenticate", "encrypt", "drainInterrupt", "prepare", "ignoring",
                       "firstOut"},
           at \in Paired /\ ~ v.raced => Both(v.socket)
    PROVE  Sound([v EXCEPT !.at = at])
<1> DEFINE u == [v EXCEPT !.at = at]
<1>1. v \in Worlds /\ at \in Loops
  BY LoopNames DEF Ready, Moving, Typed
<1>2. Typed(u) /\ Same(u, v) /\ u.at = at /\ u.progressing /\ u.autooff # "closed"
  BY <1>1, GoTyped DEF Worlds, Same, Ready, Moving
<1>3. /\ at \notin Idle \cup {"main"} \cup Starts \cup Ends \cup Channels
      /\ at \notin {"unlink", "unlinkBusy", "drainControl", "wait", "settle", "firstIn", "radioBack"}
  BY DEF Idle, Starts, Ends, Channels
<1> HIDE DEF u
<1>4. Counted(u) /\ Kept(u) /\ Unplugged(u) /\ Shown(u) /\ Awake(u) /\ Begun(u)
  BY <1>2, <1>3 DEF Ready, Moving, Same, Counted, Kept, Unplugged, At, Shown, Awake, Begun
<1>5. Dark(u)
  BY <1>2, <1>3 DEF Ready, Moving, Same, Dark, At, Leaves
<1>6. Calm(u)
  BY <1>2, <1>3 DEF Ready, Moving, Same, Calm, At, Settled
<1>7. Sound(u)
  BY <1>2, <1>4, <1>5, <1>6 DEF Sound, Ready, Moving, Same
<1>8. QED
  BY <1>7 DEF u
-----------------------------------------------------------------------------
(* BTConnect.                                                              *)
LEMMA SocketReady ==
    ASSUME NEW v, Ready(v), NEW c \in Channels, NEW s \in {"none", "open"}
    PROVE  /\ Ready(Socket(v, c, s))
           /\ \A d \in Channels : Socket(v, c, s).socket[d] = IF d = c THEN s ELSE v.socket[d]
<1> DEFINE u == Socket(v, c, s)
<1>1. v \in Worlds
  BY DEF Ready, Moving, Typed
<1>2. u.socket = [v.socket EXCEPT ![c] = s] /\ ~ u.up
  BY <1>1 DEF Worlds, Socket
<1>3. /\ u.asked = v.asked /\ u.listening = v.listening /\ u.starting = v.starting
      /\ u.exitapp = v.exitapp /\ u.fault = v.fault /\ u.cmds = v.cmds
      /\ u.leaving = v.leaving /\ u.raced = v.raced /\ u.progressing = v.progressing
      /\ u.autooff = v.autooff
  BY <1>1 DEF Worlds, Socket
<1>4. \A d \in Channels : u.socket[d] = IF d = c THEN s ELSE v.socket[d]
  BY <1>1, <1>2 DEF Worlds
<1>5. Typed(u)
  BY <1>1 DEF Worlds, Socket, Typed, Ready, Moving
<1> HIDE DEF u
<1>6. ~ u.raced => Settled(u.socket)
  BY <1>3, <1>4 DEF Settled, Ready, Moving
<1>7. ~ u.listening => \A d \in Channels : u.socket[d] # "pending"
  BY <1>3, <1>4 DEF Ready
<1>8. Ready(u)
  BY <1>2, <1>3, <1>5, <1>6, <1>7 DEF Ready, Moving, Leaves
<1>9. QED
  BY <1>4, <1>8 DEF u

LEMMA CleanupSound ==
    ASSUME NEW v, Moving(v), ~ v.starting, ~ v.listening => Leaves(v), NEW u \in Cleanup(v)
    PROVE  Sound(u)
<1> DEFINE s == [v EXCEPT !.socket = NoSockets, !.up = FALSE]
<1>1. v \in Worlds
  BY DEF Moving, Typed
<1>2. NoSockets \in [Channels -> {"none"}]
  BY DEF NoSockets
<1>3. s.socket = NoSockets /\ ~ s.up /\ s \in Worlds /\ s.cmds = v.cmds
  <2>1. NoSockets \in [Channels -> {"none", "pending", "dead", "open"}]
    BY <1>2
  <2>2. QED
    BY <1>1, <2>1 DEF Worlds
<1>4. Landing(s)
  <2>1. /\ s.asked = v.asked /\ s.listening = v.listening /\ s.starting = v.starting
        /\ s.exitapp = v.exitapp /\ s.fault = v.fault /\ s.cmds = v.cmds
        /\ s.leaving = v.leaving /\ s.raced = v.raced /\ s.autooff = v.autooff
    BY <1>1 DEF Worlds
  <2> HIDE DEF s
  <2>2. Settled(s.socket) /\ \A c \in Channels : s.socket[c] # "pending"
    BY <1>3 DEF Settled, NoSockets
  <2>3. QED
    BY <1>3, <2>1, <2>2 DEF Landing, Moving, Typed, Leaves
<1>5. QED
  BY <1>4, OfflineSound DEF Cleanup

(* Connect (c) under way.                                                  *)
LEMMA PendingSound ==
    ASSUME NEW v, Ready(v), NEW c \in Channels,
           c = "interrupt" /\ ~ v.raced => v.socket["control"] = "open",
           NEW u \in Go(Socket(v, c, "pending"), c)
    PROVE  Sound(u)
<1>1. v \in Worlds /\ c \in Loops /\ c \notin Idle \cup {"main"} \cup Starts \cup Ends \cup Silent
      /\ c \notin {"unlink", "unlinkBusy", "drainControl", "wait", "settle", "firstIn", "radioBack"}
      /\ c \notin Fixed \cup Paired
  BY ChannelNames, LoopNames
     DEF Ready, Moving, Typed, Idle, Starts, Ends, Silent, Closing, Paired, Fixed
<1>2. /\ u.at = c /\ u.socket = [v.socket EXCEPT ![c] = "pending"] /\ ~ u.up
      /\ u.cmds = v.cmds /\ u.progressing = v.progressing /\ u.autooff = v.autooff
  BY <1>1 DEF Worlds, Go, Socket
<1>3. /\ u.asked = v.asked /\ u.listening = v.listening /\ u.starting = v.starting
      /\ u.exitapp = v.exitapp /\ u.fault = v.fault /\ u.leaving = v.leaving
      /\ u.raced = v.raced
  BY <1>1 DEF Worlds, Go, Socket
<1>4. Typed(u)
  <2>1. Socket(v, c, "pending") \in Worlds /\ Socket(v, c, "pending").cmds = v.cmds
    BY <1>1 DEF Worlds, Socket
  <2>2. Typed(Socket(v, c, "pending"))
    BY <2>1 DEF Ready, Moving, Typed
  <2>3. QED
    BY <1>1, <2>2, GoTyped DEF Go
<1>5. \A d \in Channels : u.socket[d] = IF d = c THEN "pending" ELSE v.socket[d]
  BY <1>1, <1>2 DEF Worlds
<1>6. Counted(u) /\ Kept(u) /\ Unplugged(u) /\ Shown(u) /\ Awake(u) /\ Begun(u)
  BY <1>1, <1>2, <1>3 DEF Ready, Moving, Counted, Kept, Unplugged, At, Shown, Awake, Begun
<1>7. Dark(u)
  BY <1>1, <1>2, <1>3, <1>5 DEF Ready, Dark, At, Leaves
<1>8. Calm(u)
  <2> SUFFICES ASSUME ~ v.raced PROVE Calm(u)
    BY <1>3 DEF Calm
  <2>1. \A d \in Channels : u.socket[d] \in {"pending", "dead"} => u.at = d
    BY <1>2, <1>5 DEF Ready, Moving, Settled
  <2>2. ~ Has(u.cmds, {Ok}) /\ NoneAfter(u.cmds, Blockers, {Ok})
    BY <1>2 DEF Ready, Moving
  <2>3. AtMostOne(u.cmds, {Ok})
    BY <2>2 DEF Has, AtMostOne
  <2>4. u.at = "interrupt" => u.socket["control"] = "open"
    BY <1>2, <1>5, ChannelNames
  <2>5. QED
    BY <1>1, <1>2, <2>1, <2>2, <2>3, <2>4 DEF Calm, At
<1>9. QED
  BY <1>2, <1>4, <1>6, <1>7, <1>8 DEF Sound, Ready, Moving

LEMMA ConnectChannelSound ==
    ASSUME NEW v, Ready(v), NEW c \in Channels,
           c = "interrupt" /\ ~ v.raced => v.socket["control"] = "open",
           NEW u \in ConnectChannel(v, c)
    PROVE  Sound(u)
<1>1. CASE u \in Go(Socket(v, c, "pending"), c)
  BY <1>1, PendingSound
<1>2. CASE u \in Cleanup(Socket(v, c, "none"))
  <2>1. Ready(Socket(v, c, "none"))
    BY SocketReady
  <2>2. QED
    BY <1>2, <2>1, CleanupSound DEF Ready
<1>3. QED
  BY <1>1, <1>2 DEF ConnectChannel

(* Connect (c), and c is connected at once.                                *)
LEMMA ConnectedReady ==
    ASSUME NEW v, Ready(v), NEW c \in Channels
    PROVE  /\ Ready(Connected(v, c))
           /\ \A d \in Channels : Connected(v, c).socket[d] = IF d = c THEN "open" ELSE v.socket[d]
  BY SocketReady DEF Connected, Open

LEMMA PrepareSound ==
    ASSUME NEW v, Ready(v), ~ v.raced => Both(v.socket), NEW u \in Prepare(v)
    PROVE  Sound(u)
  BY LoopSound DEF Prepare, Go

LEMMA InterruptSound ==
    ASSUME NEW v, Ready(v), ~ v.raced => v.socket["control"] = "open", NEW u \in Interrupt(v)
    PROVE  Sound(u)
<1> DEFINE s == Connected(v, "interrupt")
<1>1. Ready(s) /\ (~ v.raced => Both(s.socket))
  <2>1. "interrupt" \in Channels
    BY ChannelNames
  <2>2. Ready(s) /\ \A d \in Channels : s.socket[d] = IF d = "interrupt" THEN "open" ELSE v.socket[d]
    BY <2>1, ConnectedReady
  <2> HIDE DEF s
  <2>3. QED
    BY <2>2, ChannelNames DEF Both
<1>2. s.raced = v.raced
  BY DEF Connected, Socket, Ready, Moving, Typed, Worlds
<1>3. CASE u \in Prepare(s)
  BY <1>1, <1>2, <1>3, PrepareSound
<1>4. CASE u \in ConnectChannel(v, "interrupt")
  BY <1>4, ConnectChannelSound, ChannelNames
<1>5. QED
  BY <1>3, <1>4 DEF Interrupt

LEMMA ControlSound ==
    ASSUME NEW v, Ready(v), NEW u \in Control(v)
    PROVE  Sound(u)
<1> DEFINE s == Connected(v, "control")
<1>1. Ready(s) /\ s.socket["control"] = "open"
  BY ConnectedReady, ChannelNames
<1> HIDE DEF s
<1>2. CASE u \in Interrupt(s)
  BY <1>1, <1>2, InterruptSound
<1>3. CASE u \in ConnectChannel(v, "control")
  BY <1>3, ConnectChannelSound, ChannelNames
<1>4. QED
  BY <1>2, <1>3 DEF Control, s

LEMMA ReadyCleanup == ASSUME NEW v, Ready(v), NEW u \in Cleanup(v) PROVE Sound(u)
  BY CleanupSound DEF Ready

(* What is owed and the state of the link are not part of it.              *)
LEMMA OwedReady ==
    ASSUME NEW v, Ready(v), NEW owed \in {"nothing", "Authenticate", "Encrypt"},
           NEW acl \in {"down", "connecting", "up", "dying"}
    PROVE  Ready([v EXCEPT !.owed = owed]) /\ Ready([v EXCEPT !.acl = acl])
<1>1. v \in Worlds /\ v.progressing /\ v.autooff # "closed"
  BY DEF Ready, Moving, Typed
<1>2. /\ [v EXCEPT !.owed = owed] \in Worlds /\ Same([v EXCEPT !.owed = owed], v)
      /\ [v EXCEPT !.owed = owed].progressing /\ [v EXCEPT !.owed = owed].autooff # "closed"
  BY <1>1 DEF Worlds, Same
<1>3. /\ [v EXCEPT !.acl = acl] \in Worlds /\ Same([v EXCEPT !.acl = acl], v)
      /\ [v EXCEPT !.acl = acl].progressing /\ [v EXCEPT !.acl = acl].autooff # "closed"
  BY <1>1 DEF Worlds, Same
<1>4. QED
  BY <1>2, <1>3, SameReady

LEMMA EncryptSound ==
    ASSUME NEW v, Ready(v), NEW u \in Encrypt(v)
    PROVE  Sound(u)
<1>1. CASE u \in Control(v) \cup Cleanup(v)
  BY <1>1, ControlSound, ReadyCleanup
<1>2. CASE u \in Go([v EXCEPT !.owed = "Encrypt"], "encrypt")
  <2>1. Ready([v EXCEPT !.owed = "Encrypt"])
    BY OwedReady
  <2>2. QED
    BY <1>2, <2>1, LoopSound DEF Go, Paired
<1>3. QED
  BY <1>1, <1>2 DEF Encrypt

LEMMA AuthenticateSound ==
    ASSUME NEW v, Ready(v), NEW u \in Authenticate(v)
    PROVE  Sound(u)
<1>1. CASE u \in Encrypt(v) \cup Control(v) \cup Cleanup(v)
  BY <1>1, EncryptSound, ControlSound, ReadyCleanup
<1>2. CASE u \in Go([v EXCEPT !.owed = "Authenticate"], "authenticate")
  <2>1. Ready([v EXCEPT !.owed = "Authenticate"])
    BY OwedReady
  <2>2. QED
    BY <1>2, <2>1, LoopSound DEF Go, Paired
<1>3. QED
  BY <1>1, <1>2 DEF Authenticate

LEMMA LinkedSound ==
    ASSUME NEW v, Ready(v), NEW u \in Linked(v)
    PROVE  Sound(u)
<1> DEFINE s == StartAnimate(v)
<1>1. Ready(s)
  <2>1. v \in Worlds /\ v.progressing /\ v.autooff # "closed"
    BY DEF Ready, Moving, Typed
  <2>2. s \in Worlds /\ Same(s, v) /\ s.progressing /\ s.autooff # "closed"
    BY <2>1 DEF Worlds, Same, StartAnimate
  <2>3. QED
    BY <2>2, SameReady
<1> HIDE DEF s
<1>2. u \in Authenticate(s) \cup Control(s)
  BY DEF Linked, s
<1>3. QED
  BY <1>1, <1>2, AuthenticateSound, ControlSound

LEMMA LinkConnectSound ==
    ASSUME NEW v, Ready(v), NEW u \in LinkConnect(v)
    PROVE  Sound(u)
<1>1. Ready([v EXCEPT !.acl = "up"]) /\ Ready([v EXCEPT !.acl = "connecting"])
  BY OwedReady
<1>2. CASE u \in Linked(v) \cup Cleanup(v) \cup Linked([v EXCEPT !.acl = "up"])
  BY <1>1, <1>2, LinkedSound, ReadyCleanup
<1>3. CASE u \in Go([v EXCEPT !.acl = "connecting"], "link")
  BY <1>1, <1>3, LoopSound DEF Go, Paired
<1>4. QED
  BY <1>2, <1>3 DEF LinkConnect

(* Connected already, or on the way.                                       *)
LEMMA BTConnectSound ==
    ASSUME NEW v, Ready(v), NEW u \in BTConnect(v)
    PROVE  Sound(u)
<1>1. ~ v.up
  BY DEF Ready
<1>2. QED
  BY <1>1, LinkConnectSound DEF BTConnect

-----------------------------------------------------------------------------
(* BTDisconnect.                                                           *)
LEMMA AgainReady ==
    ASSUME NEW v, Ready(v), NEW again \in BOOLEAN, NEW state \in {"Disconnected", "Connected"}
    PROVE  Ready(ProgressStart([v EXCEPT !.state = state, !.again = again]))
<1> DEFINE s == [v EXCEPT !.state = state, !.again = again]
<1>1. v \in Worlds /\ v.autooff # "closed"
  BY DEF Ready, Moving, Typed
<1>2. s \in Worlds /\ Same(s, v) /\ s.autooff # "closed"
  BY <1>1 DEF Worlds, Same
<1> HIDE DEF s
<1>3. /\ ProgressStart(s) \in Worlds /\ Still(ProgressStart(s), s) /\ ProgressStart(s).progressing
      /\ ProgressStart(s).autooff = "disabled"
  BY <1>2, StartFacts
<1>4. Same(ProgressStart(s), v)
  BY <1>2, <1>3 DEF Still, Same
<1>5. Ready(ProgressStart(s))
  BY <1>3, <1>4, SameReady
<1>6. QED
  BY <1>5 DEF s

LEMMA UnlinkedSound ==
    ASSUME NEW v, Ready(v), NEW u \in Unlinked(v)
    PROVE  Sound(u)
<1>1. CASE v.again
  <2>1. u \in BTConnect(ProgressStart([v EXCEPT !.state = "Disconnected", !.again = FALSE]))
    BY <1>1 DEF Unlinked
  <2>2. FALSE \in BOOLEAN
    OBVIOUS
  <2>3. Ready(ProgressStart([v EXCEPT !.state = "Disconnected", !.again = FALSE]))
    BY <2>2, AgainReady
  <2>4. QED
    BY <2>1, <2>3, BTConnectSound
<1>2. CASE ~ v.again
  BY <1>2, ReadyLands, OfflineSound DEF Unlinked
<1>3. QED
  BY <1>1, <1>2

(* Channels that are closed let the link be closed.                        *)
LEMMA UnlinkLoops ==
    ASSUME NEW v, Ready(v), v.socket = NoSockets, NEW at \in {"unlink", "unlinkBusy"}
    PROVE  Sound([v EXCEPT !.at = at])
<1> DEFINE u == [v EXCEPT !.at = at]
<1>1. v \in Worlds /\ at \in Loops
  BY LoopNames DEF Ready, Moving, Typed
<1>2. Typed(u) /\ Same(u, v) /\ u.at = at /\ u.progressing /\ u.autooff # "closed"
  BY <1>1, GoTyped DEF Worlds, Same, Ready, Moving
<1>3. /\ at \notin Idle \cup {"main"} \cup Starts \cup Ends \cup Channels \cup Paired
      /\ at \notin {"drainControl", "wait", "settle", "firstIn", "radioBack"}
  BY DEF Idle, Starts, Ends, Channels, Paired
<1> HIDE DEF u
<1>4. Counted(u) /\ Kept(u) /\ Unplugged(u) /\ Shown(u) /\ Awake(u) /\ Begun(u)
  BY <1>2, <1>3 DEF Ready, Moving, Same, Counted, Kept, Unplugged, At, Shown, Awake, Begun
<1>5. Dark(u)
  BY <1>2, <1>3 DEF Ready, Moving, Same, Dark, At, Leaves
<1>6. Calm(u)
  BY <1>2, <1>3 DEF Ready, Moving, Same, Calm, At, Settled
<1>7. Sound(u)
  BY <1>2, <1>4, <1>5, <1>6 DEF Sound, Ready, Moving, Same
<1>8. QED
  BY <1>7 DEF u

LEMMA LinkDisconnectSound ==
    ASSUME NEW v, Ready(v), v.socket = NoSockets, NEW u \in LinkDisconnect(v)
    PROVE  Sound(u)
<1>1. v \in Worlds
  BY DEF Ready, Moving, Typed
<1>2. \A acl \in {"down", "dying"} : /\ Ready([v EXCEPT !.acl = acl])
                                     /\ [v EXCEPT !.acl = acl].socket = NoSockets
  BY <1>1, OwedReady DEF Worlds
<1>3. CASE u \in Unlinked(v) \cup Unlinked([v EXCEPT !.acl = "down"])
  BY <1>2, <1>3, UnlinkedSound
<1>4. CASE u \in Go(v, "unlinkBusy") \cup Go([v EXCEPT !.acl = "dying"], "unlink")
  BY <1>2, <1>4, UnlinkLoops DEF Go
<1>5. QED
  BY <1>3, <1>4 DEF LinkDisconnect

LEMMA ClosedReady ==
    ASSUME NEW v, Ready(v), NEW c \in Channels
    PROVE  /\ Ready([v EXCEPT !.socket[c] = "none"])
           /\ \A d \in Channels : [v EXCEPT !.socket[c] = "none"].socket[d]
                                     = IF d = c THEN "none" ELSE v.socket[d]
<1> DEFINE u == [v EXCEPT !.socket[c] = "none"]
<1>1. v \in Worlds
  BY DEF Ready, Moving, Typed
<1>2. /\ u.socket = [v.socket EXCEPT ![c] = "none"] /\ u.up = v.up
      /\ u.asked = v.asked /\ u.listening = v.listening /\ u.starting = v.starting
      /\ u.exitapp = v.exitapp /\ u.fault = v.fault /\ u.cmds = v.cmds
      /\ u.leaving = v.leaving /\ u.raced = v.raced /\ u.progressing = v.progressing
      /\ u.autooff = v.autooff
  BY <1>1 DEF Worlds
<1>3. \A d \in Channels : u.socket[d] = IF d = c THEN "none" ELSE v.socket[d]
  BY <1>1, <1>2 DEF Worlds
<1>4. Typed(u)
  BY <1>1 DEF Worlds, Typed, Ready, Moving
<1> HIDE DEF u
<1>5. ~ u.raced => Settled(u.socket)
  BY <1>2, <1>3 DEF Settled, Ready
<1>6. ~ u.listening => \A d \in Channels : u.socket[d] # "pending"
  BY <1>2, <1>3 DEF Ready
<1>7. Ready(u)
  BY <1>2, <1>4, <1>5, <1>6 DEF Ready, Moving, Leaves
<1>8. QED
  BY <1>3, <1>7 DEF u

LEMMA ControlDrainedSound ==
    ASSUME NEW v, Ready(v), v.socket["interrupt"] = "none", NEW u \in ControlDrained(v)
    PROVE  Sound(u)
<1> DEFINE s == [v EXCEPT !.socket["control"] = "none"]
<1>1. /\ Ready(s)
      /\ \A d \in Channels : s.socket[d] = IF d = "control" THEN "none" ELSE v.socket[d]
  BY ClosedReady, ChannelNames
<1>2. u \in LinkDisconnect(s)
  BY DEF ControlDrained
<1> HIDE DEF s
<1>3. \A d \in Channels : s.socket[d] = "none"
  BY <1>1, ChannelNames
<1>4. s.socket = NoSockets
  <2>1. s.socket \in [Channels -> {"none", "pending", "dead", "open"}]
    BY <1>1 DEF Ready, Moving, Typed, Worlds
  <2>2. QED
    BY <1>3, <2>1 DEF NoSockets
<1>5. QED
  BY <1>1, <1>2, <1>4, LinkDisconnectSound

LEMMA DrainControlSound ==
    ASSUME NEW v, Ready(v), v.socket["interrupt"] = "none"
    PROVE  Sound([v EXCEPT !.at = "drainControl"])
<1> DEFINE u == [v EXCEPT !.at = "drainControl"]
<1>1. v \in Worlds /\ "drainControl" \in Loops
  BY LoopNames DEF Ready, Moving, Typed
<1>2. Typed(u) /\ Same(u, v) /\ u.at = "drainControl" /\ u.progressing /\ u.autooff # "closed"
  BY <1>1, GoTyped DEF Worlds, Same, Ready, Moving
<1>3. /\ "drainControl" \notin Idle \cup {"main"} \cup Starts \cup Ends \cup Channels \cup Paired
      /\ "drainControl" \notin {"wait", "settle", "firstIn", "radioBack"}
  BY DEF Idle, Starts, Ends, Channels, Paired
<1> HIDE DEF u
<1>4. Counted(u) /\ Kept(u) /\ Unplugged(u) /\ Shown(u) /\ Awake(u) /\ Begun(u)
  BY <1>2, <1>3 DEF Ready, Moving, Same, Counted, Kept, Unplugged, At, Shown, Awake, Begun
<1>5. Dark(u)
  BY <1>2, <1>3 DEF Ready, Moving, Same, Dark, At, Leaves
<1>6. Calm(u)
  BY <1>2, <1>3 DEF Ready, Moving, Same, Calm, At, Settled
<1>7. Sound(u)
  BY <1>2, <1>4, <1>5, <1>6 DEF Sound, Ready, Moving, Same
<1>8. QED
  BY <1>7 DEF u

LEMMA InterruptDrainedSound ==
    ASSUME NEW v, Ready(v), NEW u \in InterruptDrained(v)
    PROVE  Sound(u)
<1> DEFINE s == [v EXCEPT !.socket["interrupt"] = "none"]
<1>1. /\ Ready(s)
      /\ \A d \in Channels : s.socket[d] = IF d = "interrupt" THEN "none" ELSE v.socket[d]
  BY ClosedReady, ChannelNames
<1>2. u \in ControlDrained(s) \cup (IF "control" \in Open(s) THEN Go(s, "drainControl") ELSE {})
  BY DEF InterruptDrained
<1> HIDE DEF s
<1>3. s.socket["interrupt"] = "none"
  BY <1>1, ChannelNames
<1>4. CASE u \in ControlDrained(s)
  BY <1>1, <1>3, <1>4, ControlDrainedSound
<1>5. CASE u \in Go(s, "drainControl")
  BY <1>1, <1>3, <1>5, DrainControlSound DEF Go
<1>6. QED
  BY <1>2, <1>4, <1>5

(* What the commands that call BTDisconnect start from.                    *)
Parting(v) == Landing(v) /\ (~ v.raced => ~ Has(v.cmds, {Ok}))

LEMMA BTDisconnectSound ==
    ASSUME NEW v, Ready([v EXCEPT !.up = FALSE]), NEW u \in BTDisconnect(v)
    PROVE  Sound(u)
<1> DEFINE s == [v EXCEPT !.up = FALSE]
<1>1. u \in InterruptDrained(s) \cup (IF "interrupt" \in Open(s) THEN Go(s, "drainInterrupt") ELSE {})
  BY DEF BTDisconnect
<1> HIDE DEF s
<1>2. Ready(s)
  BY DEF s
<1>3. CASE u \in InterruptDrained(s)
  BY <1>2, <1>3, InterruptDrainedSound
<1>4. CASE u \in Go(s, "drainInterrupt")
  BY <1>2, <1>4, LoopSound DEF Go, Paired
<1>5. QED
  BY <1>1, <1>3, <1>4

LEMMA PartingReady ==
    ASSUME NEW v, Parting(v), NEW s \in Worlds, Same(s, v), s.autooff # "closed"
    PROVE  /\ Landing(ProgressStart(s)) /\ ProgressStart(s).up = v.up
           /\ ~ v.up => Ready(ProgressStart(s))
           /\ Ready([ProgressStart(s) EXCEPT !.up = FALSE])
<1> DEFINE t == ProgressStart(s)
           z == [t EXCEPT !.up = FALSE]
<1>1. t \in Worlds /\ Still(t, s) /\ t.progressing /\ t.autooff = "disabled"
  BY StartFacts
<1> HIDE DEF t
<1>2. Same(t, v) /\ t.up = v.up
  BY <1>1 DEF Still, Same
<1>3. Landing(t)
  BY <1>1, <1>2 DEF Parting, Landing, Moving, Typed, Same, Leaves
<1>4. Parting(t)
  BY <1>2, <1>3 DEF Parting, Same
<1>5. Ready(z)
  <2>1. t \in Worlds
    BY <1>1
  <2>2. z \in Worlds /\ ~ z.up
    BY <2>1 DEF Worlds
  <2>3. /\ z.socket = t.socket /\ z.asked = t.asked /\ z.listening = t.listening
        /\ z.starting = t.starting /\ z.exitapp = t.exitapp /\ z.fault = t.fault
    BY <2>1 DEF Worlds
  <2>4. /\ z.cmds = t.cmds /\ z.leaving = t.leaving /\ z.raced = t.raced
        /\ z.progressing = t.progressing /\ z.autooff = t.autooff
    BY <2>1 DEF Worlds
  <2> HIDE DEF z
  <2>5. QED
    BY <1>1, <1>4, <2>2, <2>3, <2>4 DEF Ready, Parting, Landing, Moving, Typed, Leaves
<1>6. ~ v.up => Ready(t)
  BY <1>1, <1>2, <1>4 DEF Ready, Parting, Landing
<1>7. QED
  BY <1>2, <1>3, <1>5, <1>6 DEF t

LEMMA DisconnectSound ==
    ASSUME NEW v, Parting(v), NEW u \in Disconnect(v)
    PROVE  Sound(u)
<1> DEFINE s == [v EXCEPT !.retry = FALSE, !.again = FALSE]
<1>1. v \in Worlds /\ v.autooff # "closed"
  BY DEF Parting, Landing, Moving, Typed
<1>2. s \in Worlds /\ Same(s, v) /\ s.autooff # "closed"
  BY <1>1 DEF Worlds, Same
<1>3. u \in BTDisconnect(ProgressStart(s))
  BY DEF Disconnect
<1> HIDE DEF s
<1>4. QED
  BY <1>2, <1>3, PartingReady, BTDisconnectSound

LEMMA ReconnectSound ==
    ASSUME NEW v, Parting(v), NEW u \in Reconnect(v)
    PROVE  Sound(u)
<1> DEFINE s == [v EXCEPT !.again = TRUE]
<1>1. v \in Worlds /\ v.autooff # "closed"
  BY DEF Parting, Landing, Moving, Typed
<1>2. s \in Worlds /\ Same(s, v) /\ s.autooff # "closed"
  BY <1>1 DEF Worlds, Same
<1>3. u \in Disconnect(v) \/ u \in BTDisconnect(ProgressStart(s))
  BY DEF Reconnect
<1> HIDE DEF s
<1>4. QED
  BY <1>2, <1>3, PartingReady, BTDisconnectSound, DisconnectSound

-----------------------------------------------------------------------------
(* The command queue.                                                      *)
LEMMA AppendFacts ==
    ASSUME NEW cmds \in Seq(Commands), NEW x \in Commands
    PROVE  /\ Append(cmds, x) \in Seq(Commands)
           /\ \A C : Has(Append(cmds, x), C) <=> Has(cmds, C) \/ x \in C
           /\ \A B, C : NoneAfter(cmds, B, C) /\ (x \notin C \/ ~ Has(cmds, B))
                           => NoneAfter(Append(cmds, x), B, C)
           /\ \A C : AtMostOne(cmds, C) /\ (x \notin C \/ ~ Has(cmds, C))
                        => AtMostOne(Append(cmds, x), C)
<1> DEFINE n == Len(cmds)
           a == Append(cmds, x)
<1>1. /\ n \in Nat /\ a \in Seq(Commands) /\ Len(a) = n + 1 /\ a[n + 1] = x
      /\ \A i \in 1 .. n : a[i] = cmds[i]
  BY LenProperties, AppendProperties
<1> HIDE DEF n, a
<1>2. /\ \A i \in 1 .. Len(a) : i \in 1 .. n \/ i = n + 1
      /\ \A i \in 1 .. n : i \in 1 .. Len(a)
      /\ n + 1 \in 1 .. Len(a) /\ n + 1 \notin 1 .. n
  BY <1>1
<1>3. \A i, j \in 1 .. Len(a) : i < j => i \in 1 .. n
  BY <1>1
<1>4. ASSUME NEW C PROVE Has(a, C) <=> Has(cmds, C) \/ x \in C
  <2>1. ASSUME Has(a, C) PROVE Has(cmds, C) \/ x \in C
    <3>1. PICK i \in 1 .. Len(a) : a[i] \in C
      BY <2>1 DEF Has
    <3>2. i \in 1 .. n \/ i = n + 1
      BY <1>2
    <3>3. CASE i \in 1 .. n
      BY <1>1, <3>1, <3>3 DEF Has, n
    <3>4. CASE i = n + 1
      BY <1>1, <3>1, <3>4
    <3>5. QED
      BY <3>2, <3>3, <3>4
  <2>2. ASSUME Has(cmds, C) PROVE Has(a, C)
    <3>1. PICK i \in 1 .. n : cmds[i] \in C
      BY <2>2 DEF Has, n
    <3>2. i \in 1 .. Len(a) /\ a[i] \in C
      BY <1>1, <1>2, <3>1
    <3>3. QED
      BY <3>2 DEF Has
  <2>3. ASSUME x \in C PROVE Has(a, C)
    BY <1>1, <1>2, <2>3 DEF Has
  <2>4. QED
    BY <2>1, <2>2, <2>3
<1>5. ASSUME NEW B, NEW C, NoneAfter(cmds, B, C), x \notin C \/ ~ Has(cmds, B)
      PROVE  NoneAfter(a, B, C)
  <2> SUFFICES ASSUME NEW i \in 1 .. Len(a), NEW j \in 1 .. Len(a), i < j, a[i] \in B
               PROVE  a[j] \notin C
    BY DEF NoneAfter
  <2>1. i \in 1 .. n /\ cmds[i] \in B
    BY <1>1, <1>3
  <2>2. CASE j \in 1 .. n
    BY <1>1, <1>5, <2>1, <2>2 DEF NoneAfter, n
  <2>3. CASE j = n + 1
    BY <1>1, <1>5, <2>1, <2>3 DEF Has, n
  <2>4. QED
    BY <1>2, <2>2, <2>3
<1>6. ASSUME NEW C, AtMostOne(cmds, C), x \notin C \/ ~ Has(cmds, C)
      PROVE  AtMostOne(a, C)
  <2> SUFFICES ASSUME NEW i \in 1 .. Len(a), NEW j \in 1 .. Len(a), a[i] \in C, a[j] \in C
               PROVE  i = j
    BY DEF AtMostOne
  <2>1. CASE i \in 1 .. n /\ j \in 1 .. n
    BY <1>1, <1>6, <2>1 DEF AtMostOne, n
  <2>2. CASE i = n + 1 /\ j \in 1 .. n
    BY <1>1, <1>6, <2>2 DEF Has, n
  <2>3. CASE j = n + 1 /\ i \in 1 .. n
    BY <1>1, <1>6, <2>3 DEF Has, n
  <2>4. QED
    BY <1>2, <2>1, <2>2, <2>3
<1>7. QED
  BY <1>1, <1>4, <1>5, <1>6 DEF a

LEMMA TailFacts ==
    ASSUME NEW cmds \in Seq(Commands), cmds # <<>>
    PROVE  /\ Tail(cmds) \in Seq(Commands) /\ Head(cmds) \in Commands
           /\ \A C : Has(cmds, C) <=> Head(cmds) \in C \/ Has(Tail(cmds), C)
           /\ \A B, C : NoneAfter(cmds, B, C)
                           => /\ NoneAfter(Tail(cmds), B, C)
                              /\ Head(cmds) \in B => ~ Has(Tail(cmds), C)
           /\ \A C : AtMostOne(cmds, C)
                        => /\ AtMostOne(Tail(cmds), C)
                           /\ Head(cmds) \in C => ~ Has(Tail(cmds), C)
<1> DEFINE t == Tail(cmds)
           n == Len(t)
<1>1. /\ t \in Seq(Commands) /\ n \in Nat /\ Len(cmds) = n + 1
      /\ Head(cmds) = cmds[1] /\ Head(cmds) \in Commands
      /\ \A i \in 1 .. n : t[i] = cmds[i + 1]
  <2>1. Len(cmds) \in Nat /\ Len(cmds) # 0
    BY LenProperties, EmptySeq
  <2>2. Head(cmds) = cmds[1] /\ Head(cmds) \in Commands
    BY <2>1, HeadTailProperties, ElementOfSeq
  <2>3. /\ t \in Seq(Commands) /\ Len(t) = Len(cmds) - 1
        /\ \A i \in 1 .. Len(t) : t[i] = cmds[i + 1]
    BY HeadTailProperties
  <2>4. QED
    BY <2>1, <2>2, <2>3
<1> HIDE DEF n, t
<1>2. /\ \A i \in 1 .. n : i + 1 \in 1 .. Len(cmds) /\ 1 < i + 1 /\ i + 1 # 1
      /\ \A i \in 1 .. Len(cmds) : i = 1 \/ \E j \in 1 .. n : i = j + 1
      /\ 1 \in 1 .. Len(cmds)
  <2>1. ASSUME NEW i \in 1 .. Len(cmds), i # 1 PROVE \E j \in 1 .. n : i = j + 1
    <3>1. i - 1 \in 1 .. n /\ i = (i - 1) + 1
      BY <1>1, <2>1
    <3>2. QED
      BY <3>1
  <2>2. QED
    BY <1>1, <2>1
<1>3. ASSUME NEW C PROVE Has(cmds, C) <=> Head(cmds) \in C \/ Has(t, C)
  <2>1. ASSUME Has(cmds, C) PROVE Head(cmds) \in C \/ Has(t, C)
    <3>1. PICK i \in 1 .. Len(cmds) : cmds[i] \in C
      BY <2>1 DEF Has
    <3>2. CASE i = 1
      BY <1>1, <3>1, <3>2
    <3>3. CASE \E j \in 1 .. n : i = j + 1
      <4>1. PICK j \in 1 .. n : i = j + 1
        BY <3>3
      <4>2. t[j] \in C
        BY <1>1, <3>1, <4>1
      <4>3. QED
        BY <4>2 DEF Has, n
    <3>4. QED
      BY <1>2, <3>2, <3>3
  <2>2. ASSUME Has(t, C) PROVE Has(cmds, C)
    <3>1. PICK j \in 1 .. n : t[j] \in C
      BY <2>2 DEF Has, n
    <3>2. j + 1 \in 1 .. Len(cmds) /\ cmds[j + 1] \in C
      BY <1>1, <1>2, <3>1
    <3>3. QED
      BY <3>2 DEF Has
  <2>3. ASSUME Head(cmds) \in C PROVE Has(cmds, C)
    BY <1>1, <1>2, <2>3 DEF Has
  <2>4. QED
    BY <2>1, <2>2, <2>3
<1>4. ASSUME NEW B, NEW C, NoneAfter(cmds, B, C)
      PROVE  NoneAfter(t, B, C) /\ (Head(cmds) \in B => ~ Has(t, C))
  <2>1. ASSUME NEW i \in 1 .. n, NEW j \in 1 .. n, i < j, t[i] \in B PROVE t[j] \notin C
    <3>1. i + 1 < j + 1
      BY <2>1
    <3>2. cmds[i + 1] \in B /\ t[j] = cmds[j + 1]
      BY <1>1, <2>1
    <3>3. QED
      BY <1>2, <1>4, <3>1, <3>2 DEF NoneAfter
  <2>2. ASSUME Head(cmds) \in B, NEW j \in 1 .. n PROVE t[j] \notin C
    BY <1>1, <1>2, <1>4, <2>2 DEF NoneAfter
  <2>3. QED
    BY <2>1, <2>2 DEF NoneAfter, Has, n
<1>5. ASSUME NEW C, AtMostOne(cmds, C)
      PROVE  AtMostOne(t, C) /\ (Head(cmds) \in C => ~ Has(t, C))
  <2>1. ASSUME NEW i \in 1 .. n, NEW j \in 1 .. n, t[i] \in C, t[j] \in C PROVE i = j
    <3>1. cmds[i + 1] \in C /\ cmds[j + 1] \in C
      BY <1>1, <2>1
    <3>2. i + 1 = j + 1
      BY <1>2, <1>5, <3>1 DEF AtMostOne
    <3>3. QED
      BY <3>2
  <2>2. ASSUME Head(cmds) \in C, NEW j \in 1 .. n PROVE t[j] \notin C
    BY <1>1, <1>2, <1>5, <2>2 DEF AtMostOne
  <2>3. QED
    BY <2>1, <2>2 DEF AtMostOne, Has, n
<1>6. QED
  BY <1>1, <1>3, <1>4, <1>5 DEF t

LEMMA EnqueueFacts ==
    ASSUME NEW v, Typed(v), NEW x \in Commands
    PROVE  /\ Typed(Enqueue(v, x)) /\ Enqueue(v, x).cmds = Append(v.cmds, x)
           /\ Enqueue(v, x).at = v.at /\ Enqueue(v, x).back = v.back
           /\ Enqueue(v, x).socket = v.socket /\ Enqueue(v, x).asked = v.asked
           /\ Enqueue(v, x).listening = v.listening /\ Enqueue(v, x).up = v.up
           /\ Enqueue(v, x).state = v.state /\ Enqueue(v, x).starting = v.starting
           /\ Enqueue(v, x).exitapp = v.exitapp /\ Enqueue(v, x).progressing = v.progressing
           /\ Enqueue(v, x).autooff = v.autooff /\ Enqueue(v, x).fault = v.fault
           /\ Enqueue(v, x).leaving = v.leaving /\ Enqueue(v, x).raced = v.raced
           /\ Enqueue(v, x).acl = v.acl
<1> DEFINE u == Enqueue(v, x)
<1>1. v \in Worlds /\ v.cmds \in Seq(Commands)
  BY DEF Typed, Worlds
<1>2. Append(v.cmds, x) \in Seq(Commands)
  BY <1>1, AppendFacts
<1>5. u.cmds = Append(v.cmds, x)
  BY <1>1 DEF Worlds, Enqueue
<1>6. Typed(u)
  <2>1. u \in Worlds
    BY <1>1, <1>2 DEF Worlds, Enqueue
  <2>2. QED
    BY <2>1 DEF Typed
<1>7. /\ u.at = v.at /\ u.back = v.back /\ u.socket = v.socket /\ u.asked = v.asked
      /\ u.listening = v.listening /\ u.up = v.up /\ u.state = v.state
  BY <1>1 DEF Worlds, Enqueue
<1>8. /\ u.starting = v.starting /\ u.exitapp = v.exitapp /\ u.progressing = v.progressing
      /\ u.autooff = v.autooff /\ u.fault = v.fault /\ u.leaving = v.leaving
      /\ u.raced = v.raced /\ u.acl = v.acl
  BY <1>1 DEF Worlds, Enqueue
<1>9. QED
  BY <1>5, <1>6, <1>7, <1>8

(* A command that starts no waiting can be added wherever the code runs.   *)
LEMMA EnqueueMoving ==
    ASSUME NEW v, Moving(v), NEW x \in Commands, x \notin Triggers
    PROVE  Moving(Enqueue(v, x))
<1> DEFINE u == Enqueue(v, x)
<1>1. v.cmds \in Seq(Commands) /\ Typed(v)
  BY DEF Moving, Typed, Worlds
<1>2. /\ Typed(u) /\ u.cmds = Append(v.cmds, x) /\ u.asked = v.asked
      /\ u.listening = v.listening /\ u.exitapp = v.exitapp /\ u.fault = v.fault
      /\ u.autooff = v.autooff /\ u.leaving = v.leaving /\ u.raced = v.raced
  BY <1>1, EnqueueFacts
<1> HIDE DEF u
<1>3. x \notin {Ok}
  BY DEF Triggers
<1>4. /\ \A C : Has(v.cmds, C) => Has(u.cmds, C)
      /\ NoneAfter(v.cmds, Late, Triggers) => NoneAfter(u.cmds, Late, Triggers)
      /\ NoneAfter(v.cmds, Blockers, {Ok}) => NoneAfter(u.cmds, Blockers, {Ok})
  BY <1>1, <1>2, <1>3, AppendFacts
<1>5. Moving(u)
  BY <1>2, <1>4 DEF Moving
<1>6. QED
  BY <1>5 DEF u

LEMMA EnqueueReady ==
    ASSUME NEW v, Ready(v), NEW x \in Commands, x \notin Triggers
    PROVE  Ready(Enqueue(v, x)) /\ Enqueue(v, x).socket = v.socket /\ Enqueue(v, x).raced = v.raced
<1> DEFINE u == Enqueue(v, x)
<1>1. Typed(v) /\ v.cmds \in Seq(Commands)
  BY DEF Ready, Moving, Typed, Worlds
<1>2. /\ u.cmds = Append(v.cmds, x) /\ u.socket = v.socket /\ u.listening = v.listening
      /\ u.up = v.up /\ u.starting = v.starting /\ u.progressing = v.progressing
      /\ u.leaving = v.leaving /\ u.raced = v.raced
  BY <1>1, EnqueueFacts
<1>3. Moving(u)
  BY EnqueueMoving DEF Ready
<1> HIDE DEF u
<1>4. \A C : Has(u.cmds, C) <=> Has(v.cmds, C) \/ x \in C
  BY <1>1, <1>2, AppendFacts
<1>5. x \notin {Ok}
  BY DEF Triggers
<1>6. Ready(u)
  BY <1>2, <1>3, <1>4, <1>5 DEF Ready, Leaves
<1>7. QED
  BY <1>2, <1>6 DEF u

LEMMA SendError == <<"Send", "error">> \in Commands /\ <<"Send", "error">> \notin Triggers
  BY DEF Commands, Results, Triggers, Ok, Cmd

LEMMA FirstOutSound ==
    ASSUME NEW v, Ready(v), ~ v.raced => Both(v.socket), NEW u \in FirstReport(v, "firstOut")
    PROVE  Sound(u)
<1>1. CASE u \in Go(v, "firstOut")
  BY <1>1, LoopSound DEF Go
<1>2. CASE u \in Go(Enqueue(v, <<"Send", "error">>), "firstOut")
  <2> DEFINE s == Enqueue(v, <<"Send", "error">>)
  <2>1. Ready(s) /\ (~ s.raced => Both(s.socket))
    BY EnqueueReady, SendError
  <2> HIDE DEF s
  <2>2. u = [s EXCEPT !.at = "firstOut"]
    BY <1>2 DEF Go, s
  <2>3. QED
    BY <2>1, <2>2, LoopSound
<1>3. QED
  BY <1>1, <1>2 DEF FirstReport

-----------------------------------------------------------------------------
(* Wait and BTWait.                                                        *)
Waiting(v) ==
    /\ Moving(v) /\ ~ v.up /\ ~ v.starting /\ v.progressing /\ v.listening
    /\ ~ v.raced => Settled(v.socket)

LEMMA WaitLoop ==
    ASSUME NEW v, Waiting(v), NEW at \in {"wait", "settle", "firstIn"},
           at \in Paired /\ ~ v.raced => Both(v.socket)
    PROVE  Sound([v EXCEPT !.at = at])
<1> DEFINE u == [v EXCEPT !.at = at]
<1>1. v \in Worlds /\ at \in Loops
  BY LoopNames DEF Waiting, Moving, Typed
<1>2. Typed(u) /\ Same(u, v) /\ u.at = at /\ u.progressing /\ u.autooff # "closed"
  BY <1>1, GoTyped DEF Worlds, Same, Waiting, Moving
<1>3. /\ at \notin Idle \cup {"main"} \cup Starts \cup Ends \cup Channels \cup Silent
      /\ at \notin {"unlink", "unlinkBusy", "drainControl", "radioBack"}
  BY DEF Idle, Starts, Ends, Channels, Silent, Closing
<1> HIDE DEF u
<1>4. Counted(u) /\ Kept(u) /\ Unplugged(u) /\ Shown(u) /\ Awake(u) /\ Begun(u)
  BY <1>2, <1>3 DEF Waiting, Moving, Same, Counted, Kept, Unplugged, At, Shown, Awake, Begun
<1>5. Dark(u)
  BY <1>2, <1>3 DEF Waiting, Same, Dark
<1>6. Calm(u)
  BY <1>2, <1>3 DEF Waiting, Moving, Same, Calm, At, Settled
<1>7. Sound(u)
  BY <1>2, <1>4, <1>5, <1>6 DEF Sound, Waiting, Moving, Same
<1>8. QED
  BY <1>7 DEF u

LEMMA BTWaitSound ==
    ASSUME NEW v, Waiting(v), NEW u \in BTWait(v)
    PROVE  Sound(u)
<1>1. CASE Open(v) = Channels
  <2>1. Both(v.socket)
    BY <1>1 DEF Open, Both
  <2>2. u = [v EXCEPT !.at = "settle"]
    BY <1>1 DEF BTWait, Go
  <2>3. QED
    BY <2>1, <2>2, WaitLoop
<1>2. CASE Open(v) # Channels
  <2>1. u = [v EXCEPT !.at = "wait"]
    BY <1>2 DEF BTWait, Go
  <2>2. QED
    BY <2>1, WaitLoop DEF Paired
<1>3. QED
  BY <1>1, <1>2

LEMMA WaitSound ==
    ASSUME NEW v, Landing(v), v.listening, NEW u \in Wait(v)
    PROVE  Sound(u)
<1> DEFINE t == ProgressStart(v)
<1>1. v \in Worlds /\ v.autooff # "closed"
  BY DEF Landing, Moving, Typed
<1>2. t \in Worlds /\ Still(t, v) /\ t.progressing /\ t.autooff = "disabled"
  BY <1>1, StartFacts
<1>3. u \in IF v.up THEN Online(t, FALSE) ELSE BTWait(t)
  BY DEF Wait
<1> HIDE DEF t
<1>4. Landing(t)
  BY <1>2 DEF Landing, Moving, Typed, Still, Same, Leaves
<1>5. CASE v.up
  BY <1>3, <1>4, <1>5, OnlineSound
<1>6. CASE ~ v.up
  <2>1. Waiting(t)
    BY <1>2, <1>4, <1>6 DEF Waiting, Landing, Still, Same
  <2>2. QED
    BY <1>3, <1>6, <2>1, BTWaitSound
<1>7. QED
  BY <1>5, <1>6

(* The progress form is closed, and nothing is connected or in progress.   *)
LEMMA StoppedSound ==
    ASSUME NEW v, Landing(v), v.progressing, NEW s \in Worlds, Same(s, v), s.at = "main",
           s.progressing, s.autooff # "closed", s.state = "Disconnected"
    PROVE  Sound(ProgressStop(s))
<1> DEFINE t == ProgressStop(s)
<1>1. t \in Worlds /\ Still(t, s) /\ ~ t.progressing /\ t.autooff = "enabled"
  BY StopFacts
<1> HIDE DEF t
<1>2. Same(t, v) /\ t.at = "main" /\ t.state = "Disconnected"
  BY <1>1 DEF Still, Same
<1>3. Sound(t)
  BY <1>1, <1>2, LandedSound
<1>4. QED
  BY <1>3 DEF t

LEMMA WaitingLands == ASSUME NEW v, Waiting(v) PROVE Landing(v) /\ v.progressing
  BY DEF Waiting, Landing

LEMMA WaitFailedSound ==
    ASSUME NEW v, Waiting(v), NEW err, NEW u \in WaitFailed(v, err)
    PROVE  Sound(u)
<1>1. CASE err = "canceled"
  <2> DEFINE s == [v EXCEPT !.state = "Disconnected", !.retry = FALSE, !.at = "main"]
  <2>1. v \in Worlds /\ v.autooff # "closed" /\ v.progressing
    BY DEF Waiting, Moving, Typed
  <2>2. "main" \in Loops
    BY LoopNames
  <2>3. s \in Worlds /\ s.at = "main" /\ s.progressing /\ s.autooff # "closed"
        /\ s.state = "Disconnected"
    BY <2>1, <2>2 DEF Worlds
  <2>4. Same(s, v)
    BY <2>1 DEF Worlds, Same
  <2>5. u = ProgressStop(s)
    BY <1>1 DEF WaitFailed
  <2> HIDE DEF s
  <2>6. QED
    BY <2>3, <2>4, <2>5, WaitingLands, StoppedSound
<1>2. CASE err # "canceled"
  BY <1>2, BTWaitSound DEF WaitFailed
<1>3. QED
  BY <1>1, <1>2

LEMMA EnqueueWaiting ==
    ASSUME NEW v, Waiting(v), NEW x \in Commands, x \notin Triggers
    PROVE  /\ Waiting(Enqueue(v, x))
           /\ Enqueue(v, x).socket = v.socket /\ Enqueue(v, x).raced = v.raced
<1>1. Typed(v)
  BY DEF Waiting, Moving
<1>2. Moving(Enqueue(v, x))
  BY EnqueueMoving DEF Waiting
<1>3. QED
  BY <1>1, <1>2, EnqueueFacts DEF Waiting

LEMMA FirstInSound ==
    ASSUME NEW v, Waiting(v), ~ v.raced => Both(v.socket), NEW u \in FirstReport(v, "firstIn")
    PROVE  Sound(u)
<1>1. CASE u \in Go(v, "firstIn")
  BY <1>1, WaitLoop DEF Go
<1>2. CASE u \in Go(Enqueue(v, <<"Send", "error">>), "firstIn")
  <2> DEFINE s == Enqueue(v, <<"Send", "error">>)
  <2>1. Waiting(s) /\ (~ s.raced => Both(s.socket))
    BY EnqueueWaiting, SendError
  <2> HIDE DEF s
  <2>2. u = [s EXCEPT !.at = "firstIn"]
    BY <1>2 DEF Go, s
  <2>3. QED
    BY <2>1, <2>2, WaitLoop
<1>3. QED
  BY <1>1, <1>2 DEF FirstReport

(* The loop of the first report ends with a connection.                    *)
LEMMA FirstSentSound ==
    ASSUME NEW v, Landing(v), ~ v.raced => Both(v.socket), NEW retry \in BOOLEAN,
           NEW u \in Online([v EXCEPT !.up = TRUE], retry)
    PROVE  Sound(u)
<1> DEFINE s == [v EXCEPT !.up = TRUE]
<1>1. v \in Worlds
  BY DEF Landing, Moving, Typed
<1>2. s \in Worlds
  BY <1>1 DEF Worlds
<1>3. /\ s.socket = v.socket /\ s.asked = v.asked /\ s.listening = v.listening
      /\ s.starting = v.starting /\ s.exitapp = v.exitapp /\ s.fault = v.fault
  BY <1>1 DEF Worlds
<1>4. /\ s.cmds = v.cmds /\ s.leaving = v.leaving /\ s.raced = v.raced
      /\ s.autooff = v.autooff
  BY <1>1 DEF Worlds
<1> HIDE DEF s
<1>5. Landing(s)
  BY <1>2, <1>3, <1>4 DEF Landing, Moving, Typed, Leaves
<1>6. QED
  BY <1>5, OnlineSound DEF s

-----------------------------------------------------------------------------
(* The radio: the program ends.                                            *)
Finishing(v) ==
    /\ Typed(v) /\ ~ v.exitapp /\ v.fault = "none" /\ v.autooff # "closed"
    /\ v.starting => v.state = "Disconnected"
    /\ NoneAfter(v.cmds, Late, Triggers)
    /\ ~ v.raced => NoneAfter(v.cmds, Blockers, {Ok})

LEMMA CloseFacts ==
    ASSUME NEW v \in Worlds
    PROVE  /\ BTRadioClose(v) \in Worlds /\ ~ BTRadioClose(v).up
           /\ BTRadioClose(v).socket = NoSockets /\ BTRadioClose(v).asked = {}
           /\ ~ BTRadioClose(v).listening
           /\ BTRadioClose(v).state = v.state /\ BTRadioClose(v).starting = v.starting
           /\ BTRadioClose(v).exitapp = v.exitapp /\ BTRadioClose(v).fault = v.fault
           /\ BTRadioClose(v).cmds = v.cmds /\ BTRadioClose(v).leaving = v.leaving
           /\ BTRadioClose(v).raced = v.raced /\ BTRadioClose(v).autooff = v.autooff
           /\ BTRadioClose(v).progressing = v.progressing
<1>1. NoSockets \in [Channels -> {"none", "pending", "dead", "open"}] /\ {} \in SUBSET Channels
  BY DEF NoSockets
<1>2. BTRadioClose(v) \in Worlds
  BY <1>1 DEF Worlds, BTRadioClose
<1>3. /\ ~ BTRadioClose(v).up
      /\ BTRadioClose(v).socket = NoSockets /\ BTRadioClose(v).asked = {}
      /\ ~ BTRadioClose(v).listening
  BY DEF Worlds, BTRadioClose
<1>4. /\ BTRadioClose(v).state = v.state /\ BTRadioClose(v).starting = v.starting
      /\ BTRadioClose(v).exitapp = v.exitapp /\ BTRadioClose(v).fault = v.fault
      /\ BTRadioClose(v).cmds = v.cmds
  BY DEF Worlds, BTRadioClose
<1>5. /\ BTRadioClose(v).leaving = v.leaving
      /\ BTRadioClose(v).raced = v.raced /\ BTRadioClose(v).autooff = v.autooff
      /\ BTRadioClose(v).progressing = v.progressing
  BY DEF Worlds, BTRadioClose
<1>6. QED
  BY <1>2, <1>3, <1>4, <1>5

(* A closed program: nothing more happens in it.                           *)
LEMMA EndSound ==
    ASSUME NEW v, v \in Worlds, v.at = "closed", ~ v.up, ~ v.exitapp,
           ~ v.listening, v.socket = NoSockets, v.asked = {},
           v.starting => v.state = "Disconnected",
           NoneAfter(v.cmds, Late, Triggers), ~ v.raced => NoneAfter(v.cmds, Blockers, {Ok})
    PROVE  Sound(v)
<1>1. /\ "closed" \notin Fixed \cup Channels \cup Starts \cup Silent \cup Paired
      /\ "closed" \notin {"unlink", "unlinkBusy", "drainControl", "main", "radioBack", "launched"}
      /\ "closed" \in Idle \cap Ends
  BY DEF Fixed, Channels, Starts, Ends, Silent, Closing, Paired, Idle
<1>2. Typed(v) /\ Counted(v) /\ Kept(v) /\ Shown(v) /\ Awake(v) /\ Begun(v) /\ Dark(v)
  BY <1>1 DEF Typed, Counted, Kept, Shown, Awake, Begun, Dark
<1>3. Unplugged(v)
  BY <1>1 DEF Unplugged, At
<1>4. \A c \in Channels : v.socket[c] = "none"
  BY DEF NoSockets
<1>5. Calm(v)
  BY <1>1, <1>4 DEF Calm, At
<1>6. QED
  BY <1>2, <1>3, <1>5 DEF Sound

LEMMA ClosedSound ==
    ASSUME NEW v, Finishing(v), NEW u \in Closed(v)
    PROVE  Sound(u)
<1> DEFINE r == BTRadioClose(v)
           p == ProgressStop(r)
<1>1. v \in Worlds
  BY DEF Finishing, Typed
<1>2. /\ r \in Worlds /\ ~ r.up /\ r.socket = NoSockets /\ r.asked = {} /\ ~ r.listening
      /\ r.state = v.state /\ r.starting = v.starting /\ r.exitapp = v.exitapp
      /\ r.cmds = v.cmds /\ r.raced = v.raced /\ r.autooff = v.autooff
  BY <1>1, CloseFacts
<1> HIDE DEF r
<1>3. p \in Worlds /\ Still(p, r)
  BY <1>2, StopFacts DEF Finishing
<1>4. u = [p EXCEPT !.at = "closed", !.autooff = "closed"]
  BY DEF Closed, r
<1> HIDE DEF p
<1>5. "closed" \in Loops
  BY LoopNames
<1>6. u \in Worlds /\ u.at = "closed"
  BY <1>3, <1>4, <1>5 DEF Worlds
<1>7. /\ u.up = p.up /\ u.exitapp = p.exitapp /\ u.listening = p.listening
      /\ u.socket = p.socket /\ u.asked = p.asked
  BY <1>3, <1>4 DEF Worlds
<1>8. /\ u.starting = p.starting /\ u.state = p.state
      /\ u.cmds = p.cmds /\ u.raced = p.raced
  BY <1>3, <1>4 DEF Worlds
<1>9. QED
  BY <1>2, <1>3, <1>6, <1>7, <1>8, EndSound DEF Still, Same, Finishing

LEMMA RestoreSound ==
    ASSUME NEW v, Finishing(v), v.progressing,
           ~ v.raced => Settled(v.socket) /\ (v.up => Both(v.socket)),
           ~ v.listening => v.asked = {}
    PROVE  Sound([v EXCEPT !.at = "restore"])
<1> DEFINE u == [v EXCEPT !.at = "restore"]
<1>1. v \in Worlds /\ "restore" \in Loops
  BY LoopNames DEF Finishing, Typed
<1>2. Typed(u) /\ Same(u, v) /\ u.at = "restore" /\ u.progressing /\ u.autooff # "closed"
      /\ u.state = v.state
  BY <1>1, GoTyped DEF Worlds, Same, Finishing
<1>3. /\ "restore" \notin Fixed \cup Channels \cup Starts \cup Silent \cup Paired \cup Idle
      /\ "restore" \notin {"unlink", "unlinkBusy", "drainControl", "main", "radioBack", "launched"}
      /\ "restore" \in Ends
  BY DEF Fixed, Channels, Starts, Ends, Silent, Closing, Paired, Idle
<1> HIDE DEF u
<1>4. Counted(u) /\ Kept(u) /\ Unplugged(u) /\ Shown(u) /\ Awake(u) /\ Begun(u)
  BY <1>2, <1>3 DEF Finishing, Same, Counted, Kept, Unplugged, At, Shown, Awake, Begun
<1>5. Dark(u)
  BY <1>2, <1>3 DEF Dark
<1>6. Calm(u)
  BY <1>2, <1>3 DEF Finishing, Same, Calm, At, Settled, Both
<1>7. Sound(u)
  BY <1>2, <1>4, <1>5, <1>6 DEF Sound, Finishing, Same
<1>8. QED
  BY <1>7 DEF u

LEMMA BTCloseSound ==
    ASSUME NEW v, Finishing(v), ~ v.raced => Settled(v.socket) /\ (v.up => Both(v.socket)),
           ~ v.listening => v.asked = {}, NEW u \in BTClose(v)
    PROVE  Sound(u)
<1> DEFINE s == ProgressStart(v)
<1>1. v \in Worlds /\ v.autooff # "closed"
  BY DEF Finishing, Typed
<1>2. s \in Worlds /\ Still(s, v) /\ s.progressing /\ s.autooff = "disabled"
  BY <1>1, StartFacts
<1>3. u \in Closed(s) \cup Go(s, "restore")
  BY DEF BTClose
<1> HIDE DEF s
<1>4. Finishing(s)
  BY <1>2 DEF Finishing, Typed, Still, Same
<1>5. CASE u \in Closed(s)
  BY <1>4, <1>5, ClosedSound
<1>6. CASE u \in Go(s, "restore")
  <2>1. /\ ~ s.raced => Settled(s.socket) /\ (s.up => Both(s.socket))
        /\ ~ s.listening => s.asked = {}
    BY <1>2 DEF Still, Same
  <2>2. QED
    BY <1>2, <1>4, <1>6, <2>1, RestoreSound DEF Go
<1>7. QED
  BY <1>3, <1>5, <1>6

(* The radio is off, or its start has just ended.                          *)
Radio(v) ==
    /\ Moving(v) /\ ~ v.up /\ v.progressing /\ ~ v.listening /\ v.socket = NoSockets
    /\ ~ Has(v.cmds, Triggers)
    /\ v.starting => v.state = "Disconnected"

LEMMA NoneOpen == ~ Both(NoSockets) /\ Settled(NoSockets) /\ \A c \in Channels : NoSockets[c] = "none"
  BY ChannelNames DEF Both, Settled, NoSockets

LEMMA RadioLoop ==
    ASSUME NEW v, Radio(v), NEW at \in {"radioUp", "accessible", "mode"}
    PROVE  Sound([v EXCEPT !.at = at])
<1> DEFINE u == [v EXCEPT !.at = at]
<1>1. v \in Worlds /\ at \in Loops
  BY LoopNames DEF Radio, Moving, Typed
<1>2. Typed(u) /\ Same(u, v) /\ u.at = at /\ u.progressing /\ u.autooff # "closed"
      /\ u.state = v.state
  BY <1>1, GoTyped DEF Worlds, Same, Radio, Moving
<1>3. /\ at \notin Fixed \cup Channels \cup Ends \cup Silent \cup Paired \cup Idle
      /\ at \notin {"unlink", "unlinkBusy", "drainControl", "main", "radioBack", "launched"}
      /\ at \in Starts
  BY DEF Fixed, Channels, Starts, Ends, Silent, Closing, Paired, Idle
<1> HIDE DEF u
<1>4. Counted(u) /\ Kept(u) /\ Unplugged(u) /\ Shown(u) /\ Awake(u) /\ Begun(u)
  BY <1>2, <1>3 DEF Radio, Moving, Same, Counted, Kept, Unplugged, At, Shown, Awake, Begun
<1>5. Dark(u)
  BY <1>2, <1>3 DEF Dark
<1>6. Calm(u)
  BY <1>2, <1>3, NoneOpen DEF Radio, Moving, Same, Calm, At
<1>7. Sound(u)
  BY <1>2, <1>4, <1>5, <1>6 DEF Sound, Radio, Moving, Same
<1>8. QED
  BY <1>7 DEF u

LEMMA StartFailedSound ==
    ASSUME NEW v, Radio(v), NEW u \in StartFailed(v)
    PROVE  Sound(u)
<1> DEFINE s == [v EXCEPT !.at = "closed", !.autooff = "closed"]
           t == [s EXCEPT !.progressing = FALSE, !.animating = FALSE]
<1>1. v \in Worlds /\ v.progressing
  BY DEF Radio, Moving, Typed
<1>2. "closed" \in Loops
  BY LoopNames
<1>3. u = [t EXCEPT !.fault = "closed"]
  BY <1>1 DEF StartFailed, ProgressStop, AutoOffEnable, Worlds
<1>4. u \in Worlds /\ u.at = "closed"
  BY <1>1, <1>2, <1>3 DEF Worlds
<1>5. /\ u.up = v.up /\ u.exitapp = v.exitapp /\ u.listening = v.listening
      /\ u.socket = v.socket /\ u.asked = v.asked
  BY <1>1, <1>3 DEF Worlds
<1>6. /\ u.starting = v.starting /\ u.state = v.state
      /\ u.cmds = v.cmds /\ u.raced = v.raced
  BY <1>1, <1>3 DEF Worlds
<1> HIDE DEF s, t
<1>7. QED
  BY <1>4, <1>5, <1>6, EndSound DEF Radio, Moving

LEMMA StartedSound ==
    ASSUME NEW v, Landing([v EXCEPT !.starting = FALSE]), v.starting, ~ v.up, v.progressing,
           v.state = "Disconnected", ~ Has(v.cmds, {Ok}), v \in Worlds,
           NEW u \in Started(v)
    PROVE  Sound(u)
<1> DEFINE s == [v EXCEPT !.starting = FALSE]
           z == [s EXCEPT !.at = "main"]
<1>1. s \in Worlds
  BY DEF Worlds
<1>2. /\ s.up = v.up /\ s.progressing = v.progressing /\ s.state = v.state /\ s.cmds = v.cmds
      /\ s.autooff = v.autooff
  BY DEF Worlds
<1>3. u \in {ProgressStop(z)} \cup BTConnect(ProgressStart(s))
  BY DEF Started
<1>4. Landing(s) /\ Parting(s) /\ Same(s, s)
  BY <1>2 DEF Parting, Same
<1> HIDE DEF s
<1>5. CASE u = ProgressStop(z)
  <2>1. "main" \in Loops
    BY LoopNames
  <2>2. z \in Worlds /\ z.at = "main" /\ z.progressing /\ z.autooff = s.autooff
        /\ z.state = "Disconnected"
    BY <1>1, <1>2, <2>1 DEF Worlds
  <2>3. Same(z, s)
    BY <1>1 DEF Worlds, Same
  <2> HIDE DEF z
  <2>4. s.autooff # "closed"
    BY <1>4 DEF Landing, Moving
  <2>5. QED
    BY <1>2, <1>4, <1>5, <2>2, <2>3, <2>4, StoppedSound
<1>6. CASE u \in BTConnect(ProgressStart(s))
  <2>1. s.autooff # "closed"
    BY <1>4 DEF Landing, Moving
  <2>2. Ready(ProgressStart(s))
    BY <1>1, <1>2, <1>4, <2>1, PartingReady
  <2>3. QED
    BY <1>6, <2>2, BTConnectSound
<1>7. QED
  BY <1>3, <1>5, <1>6

LEMMA ReinitializedSound ==
    ASSUME NEW v, Parting(v), v.progressing, NEW u \in Reinitialized(v)
    PROVE  Sound(u)
<1>1. CASE v.state = "Disconnected"
  <2> DEFINE z == [v EXCEPT !.at = "main"]
  <2>1. "main" \in Loops
    BY LoopNames
  <2>2. v \in Worlds /\ v.autooff # "closed"
    BY DEF Parting, Landing, Moving, Typed
  <2>3. z \in Worlds /\ z.at = "main" /\ z.progressing /\ z.autooff # "closed"
        /\ z.state = "Disconnected"
    BY <1>1, <2>1, <2>2 DEF Worlds
  <2>4. Same(z, v)
    BY <2>2 DEF Worlds, Same
  <2>5. u = ProgressStop(z)
    BY <1>1 DEF Reinitialized
  <2> HIDE DEF z
  <2>6. QED
    BY <2>3, <2>4, <2>5, StoppedSound DEF Parting
<1>2. CASE v.state # "Disconnected"
  BY <1>2, ReconnectSound, DisconnectSound DEF Reinitialized
<1>3. QED
  BY <1>1, <1>2

LEMMA ExitCommand ==
    /\ Cmd("ExitApp") \in Commands /\ Cmd("RadioError") \in Commands
    /\ Cmd("ExitApp") \notin Triggers /\ Cmd("RadioError") \notin Triggers
    /\ Cmd("ExitApp") \in Late /\ Cmd("ExitApp") \in {Cmd("ExitApp")}
    /\ Cmd("ExitApp") \notin {Ok} /\ Cmd("RadioError") \notin {Ok}
    /\ Cmd("RadioError") \in Late /\ Cmd("RadioError") \in Blockers
  BY DEF Commands, Names, Triggers, Ok, Cmd, Late, Blockers

(* The radio cannot be started anew: the program is told to end.           *)
LEMMA ReinitFailedSound ==
    ASSUME NEW v, Radio(v), ~ v.starting, NEW u \in ReinitFailed(v)
    PROVE  Sound(u)
<1> DEFINE m == [v EXCEPT !.at = "main", !.leaving = TRUE]
           s == Enqueue(m, Cmd("ExitApp"))
<1>1. v \in Worlds /\ v.autooff # "closed"
  BY DEF Radio, Moving, Typed
<1>2. "main" \in Loops
  BY LoopNames
<1>3. m \in Worlds /\ m.at = "main" /\ m.leaving /\ m.cmds = v.cmds /\ m.back = v.back
  BY <1>1, <1>2 DEF Worlds
<1>4. /\ m.up = v.up /\ m.socket = v.socket /\ m.asked = v.asked /\ m.listening = v.listening
      /\ m.state = v.state /\ m.starting = v.starting /\ m.raced = v.raced
  BY <1>1 DEF Worlds
<1>5. /\ m.exitapp = v.exitapp /\ m.fault = v.fault /\ m.autooff = v.autooff
      /\ m.progressing = v.progressing
  BY <1>1 DEF Worlds
<1>6. u = IF v.state = "Disconnected" THEN ProgressStop(s) ELSE s
  BY DEF ReinitFailed
<1> HIDE DEF m
<1>7. v.cmds \in Seq(Commands)
  BY <1>1 DEF Worlds
<1>8. /\ Typed(s) /\ s.at = "main" /\ s.cmds = Append(v.cmds, Cmd("ExitApp")) /\ s.leaving
      /\ s.socket = v.socket /\ s.asked = v.asked /\ s.listening = v.listening /\ s.up = v.up
      /\ s.state = v.state /\ s.starting = v.starting /\ s.exitapp = v.exitapp
      /\ s.progressing = v.progressing /\ s.autooff = v.autooff /\ s.fault = v.fault
      /\ s.raced = v.raced
  BY <1>3, <1>4, <1>5, EnqueueFacts, ExitCommand DEF Typed
<1> HIDE DEF s
<1>9. /\ Has(s.cmds, {Cmd("ExitApp")}) /\ Has(s.cmds, Late) /\ ~ Has(s.cmds, Triggers)
      /\ NoneAfter(s.cmds, Late, Triggers)
      /\ ~ s.raced => NoneAfter(s.cmds, Blockers, {Ok})
  BY <1>7, <1>8, AppendFacts, ExitCommand DEF Radio, Moving
<1>10. Landing(s)
  BY <1>8, <1>9, NoneOpen DEF Radio, Moving, Landing, Leaves
<1>11. CASE v.state = "Disconnected"
  BY <1>1, <1>6, <1>8, <1>10, <1>11, StoppedSound DEF Typed, Radio, Same
<1>12. CASE v.state # "Disconnected"
  <2>1. "main" \notin Fixed \cup Channels \cup Starts \cup Ends \cup Silent \cup Paired
        /\ "main" \notin {"unlink", "unlinkBusy", "drainControl", "wait", "settle", "firstIn"}
    BY DEF Fixed, Channels, Starts, Ends, Silent, Closing, Paired
  <2>2. Counted(s) /\ Kept(s) /\ Shown(s) /\ Awake(s) /\ Begun(s)
    BY <1>8, <1>9, <2>1 DEF Radio, Moving, Counted, Kept, Shown, Awake, Begun
  <2>3. Unplugged(s) /\ Dark(s)
    BY <1>8, <1>9, <2>1, NoneOpen DEF Radio, Unplugged, Dark, At, Leaves
  <2>4. Calm(s)
    BY <1>8, <1>9, <2>1, NoneOpen DEF Radio, Calm, At
  <2>5. QED
    BY <1>6, <1>8, <1>9, <1>12, <2>2, <2>3, <2>4 DEF Sound
<1>13. QED
  BY <1>11, <1>12

LEMMA RadioFailedSound ==
    ASSUME NEW v, Radio(v), NEW u \in RadioFailed(v)
    PROVE  Sound(u)
  BY StartFailedSound, ReinitFailedSound DEF RadioFailed

LEMMA RadioReadySound ==
    ASSUME NEW v, Radio(v), NEW u \in RadioReady(v)
    PROVE  Sound(u)
<1> DEFINE s == [v EXCEPT !.listening = TRUE]
           z == [s EXCEPT !.starting = FALSE]
<1>1. v \in Worlds
  BY DEF Radio, Moving, Typed
<1>2. s \in Worlds /\ s.listening
  BY <1>1 DEF Worlds
<1>3. /\ s.socket = v.socket /\ s.asked = v.asked /\ s.up = v.up
      /\ s.starting = v.starting /\ s.exitapp = v.exitapp /\ s.fault = v.fault
  BY <1>1 DEF Worlds
<1>4. /\ s.cmds = v.cmds /\ s.leaving = v.leaving /\ s.raced = v.raced
      /\ s.autooff = v.autooff /\ s.progressing = v.progressing /\ s.state = v.state
  BY <1>1 DEF Worlds
<1>5. u \in IF v.starting THEN Started(s) \cup BTClose(v) ELSE Reinitialized(s) \cup ReinitFailed(v)
  BY DEF RadioReady
<1> HIDE DEF s
<1>6. Moving(s)
  BY <1>2, <1>3, <1>4 DEF Radio, Moving, Typed
<1>7. \A C : Has(v.cmds, {Ok}) => Has(v.cmds, Triggers)
  BY DEF Has, Triggers
<1>8. CASE ~ v.starting
  <2>1. Parting(s)
    BY <1>2, <1>3, <1>4, <1>6, <1>7, <1>8, NoneOpen DEF Radio, Parting, Landing
  <2>2. CASE u \in Reinitialized(s)
    BY <1>4, <2>1, <2>2, ReinitializedSound DEF Radio
  <2>3. CASE u \in ReinitFailed(v)
    BY <1>8, <2>3, ReinitFailedSound
  <2>4. QED
    BY <1>5, <1>8, <2>2, <2>3
<1>9. CASE v.starting
  <2>1. CASE u \in Started(s)
    <3>1. z \in Worlds /\ ~ z.starting
      BY <1>2 DEF Worlds
    <3>2. /\ z.socket = s.socket /\ z.asked = s.asked /\ z.listening = s.listening
          /\ z.up = s.up /\ z.exitapp = s.exitapp /\ z.fault = s.fault
      BY <1>2 DEF Worlds
    <3>3. /\ z.cmds = s.cmds /\ z.leaving = s.leaving /\ z.raced = s.raced
          /\ z.autooff = s.autooff
      BY <1>2 DEF Worlds
    <3>4. Landing(z)
      <4> HIDE DEF z
      <4>1. Moving(z)
        BY <1>6, <3>1, <3>2, <3>3 DEF Moving, Typed
      <4>2. QED
        BY <1>2, <1>3, <3>1, <3>2, <3>3, <4>1, NoneOpen DEF Radio, Landing
    <3>5. QED
      BY <1>2, <1>3, <1>4, <1>7, <1>9, <2>1, <3>4, StartedSound DEF Radio
  <2>2. CASE u \in BTClose(v)
    <3>1. Finishing(v)
      BY <1>9 DEF Radio, Moving, Finishing
    <3>2. QED
      BY <2>2, <3>1, NoneOpen, BTCloseSound DEF Radio, Moving
  <2>3. QED
    BY <1>5, <1>9, <2>1, <2>2
<1>10. QED
  BY <1>8, <1>9

LEMMA SetModeSound ==
    ASSUME NEW v, Radio(v), NEW u \in SetMode(v)
    PROVE  Sound(u)
  BY RadioReadySound, RadioLoop DEF SetMode, Go

LEMMA BTRadioInitSound ==
    ASSUME NEW v, Radio(v), NEW u \in BTRadioInit(v)
    PROVE  Sound(u)
  BY RadioFailedSound, RadioLoop DEF BTRadioInit, Go

LEMMA ReinitRadioSound ==
    ASSUME NEW v, Moving(v), ~ v.starting, ~ Has(v.cmds, Triggers), NEW u \in ReinitRadio(v)
    PROVE  Sound(u)
<1> DEFINE s == ProgressStart(v)
           r == BTRadioClose(s)
<1>1. v \in Worlds /\ v.autooff # "closed"
  BY DEF Moving, Typed
<1>2. s \in Worlds /\ Still(s, v) /\ s.progressing /\ s.autooff = "disabled"
  BY <1>1, StartFacts
<1>3. u \in BTRadioInit(r)
  BY DEF ReinitRadio
<1> HIDE DEF s
<1>4. /\ r \in Worlds /\ ~ r.up /\ r.socket = NoSockets /\ r.asked = {} /\ ~ r.listening
      /\ r.starting = s.starting /\ r.exitapp = s.exitapp /\ r.fault = s.fault
      /\ r.cmds = s.cmds /\ r.leaving = s.leaving /\ r.raced = s.raced
      /\ r.autooff = s.autooff /\ r.progressing = s.progressing
  BY <1>2, CloseFacts
<1> HIDE DEF r
<1>5. Radio(r)
  BY <1>2, <1>4 DEF Radio, Moving, Typed, Still, Same
<1>6. QED
  BY <1>3, <1>5, BTRadioInitSound

-----------------------------------------------------------------------------
(* The end of a loop.  What holds at a loop, but for the request to exit   *)
(* that the loop has yet to hand on, and when it was handed on.            *)
Working(v) ==
    /\ Typed(v) /\ Counted(v) /\ Unplugged(v) /\ Shown(v) /\ Awake(v) /\ Begun(v)
    /\ Dark(v) /\ Calm(v) /\ NoneAfter(v.cmds, Late, Triggers)

Ending(v) ==
    /\ Working(v) /\ ~ v.exitapp /\ v.fault = "none" /\ v.at \notin Idle \cup {"main"}
    /\ v.leaving /\ v.at \notin Ends => Has(v.cmds, {Cmd("ExitApp")})

LEMMA SoundWorks == ASSUME NEW v PROVE Sound(v) <=> Working(v) /\ Kept(v)
  BY DEF Sound, Working

LEMMA EndingMoving == ASSUME NEW v, Ending(v), v.at \notin Ends PROVE Moving(v)
<1>1. v.at # "closed"
  BY DEF Ending, Idle
<1>2. QED
  BY <1>1 DEF Ending, Working, Awake, Begun, Calm, Moving

LEMMA EndingRadio ==
    ASSUME NEW v, Ending(v), v.at \in {"radioUp", "accessible", "mode"}
    PROVE  Radio(v)
<1>1. v.at \in Starts /\ v.at \notin Ends /\ v.at \notin Idle \cup {"main", "restore", "radioBack"}
  BY DEF Starts, Ends, Idle
<1>2. Moving(v)
  BY <1>1, EndingMoving
<1>3. ~ v.up /\ v.progressing
  BY <1>1 DEF Ending, Working, Counted, Shown
<1>4. QED
  BY <1>1, <1>2, <1>3 DEF Radio, Ending, Working, Begun

LEMMA EndingReady ==
    ASSUME NEW v, Ending(v), v.at \in Silent
    PROVE  /\ Ready(v)
           /\ v.at \in {"prepare", "ignoring", "firstOut"} /\ ~ v.raced => Both(v.socket)
<1>1. v.at \notin Starts \cup Ends \cup Idle \cup {"main", "restore", "radioBack"} \cup Channels
  BY DEF Closing, Starts, Ends, Idle, Channels, Silent
<1>2. Moving(v)
  BY <1>1, EndingMoving
<1>3. ~ v.up /\ v.progressing /\ ~ v.starting
  BY <1>1 DEF Ending, Working, Counted, Shown, Begun
<1>4. ~ v.listening => Leaves(v) /\ \A c \in Channels : v.socket[c] # "pending"
  BY <1>1 DEF Ending, Working, Dark
<1>5. ~ v.raced => ~ Has(v.cmds, {Ok}) /\ Settled(v.socket)
  BY <1>1 DEF Ending, Working, Calm, At, Settled
<1>6. v.at \in {"prepare", "ignoring", "firstOut"} /\ ~ v.raced => Both(v.socket)
  BY DEF Ending, Working, Calm, At, Paired
<1>7. QED
  BY <1>2, <1>3, <1>4, <1>5, <1>6 DEF Ready

LEMMA EndingWaiting ==
    ASSUME NEW v, Ending(v), v.at \in {"wait", "settle", "firstIn"}
    PROVE  Waiting(v) /\ (v.at # "wait" /\ ~ v.raced => Both(v.socket))
<1>1. v.at \notin Starts \cup Ends \cup Idle \cup {"main", "restore", "radioBack"} \cup Channels
  BY DEF Starts, Ends, Idle, Channels
<1>2. Moving(v)
  BY <1>1, EndingMoving
<1>3. ~ v.up /\ v.progressing /\ ~ v.starting
  BY <1>1 DEF Ending, Working, Counted, Shown, Begun
<1>4. v.listening
  BY <1>1 DEF Ending, Working, Dark, At
<1>5. ~ v.raced => Settled(v.socket)
  BY <1>1 DEF Ending, Working, Calm, Settled
<1>6. v.at # "wait" /\ ~ v.raced => Both(v.socket)
  BY DEF Ending, Working, Calm, At, Paired
<1>7. QED
  BY <1>2, <1>3, <1>4, <1>5, <1>6 DEF Waiting

(* Connect (c) returned.                                                   *)
Answered(v) == v.listening /\ (~ v.raced => v.socket[v.at] = "open" /\ ~ Has(v.cmds, {Ok}))

LEMMA EndingConnect ==
    ASSUME NEW v, Ending(v), v.at \in Channels
    PROVE  /\ Moving(v) /\ ~ v.starting /\ (~ v.listening => Leaves(v))
           /\ Answered(v) => Ready(v)
           /\ Answered(v) /\ ~ v.raced => v.socket["control"] = "open"
           /\ Answered(v) /\ ~ v.raced /\ v.at = "interrupt" => Both(v.socket)
<1>1. v.at \notin Starts \cup Ends \cup Idle \cup {"main", "restore", "radioBack"}
  BY ChannelNames DEF Starts, Ends, Idle
<1>2. Moving(v)
  BY <1>1, EndingMoving
<1>3. ~ v.up /\ v.progressing /\ ~ v.starting
  BY <1>1 DEF Ending, Working, Counted, Shown, Begun
<1>4. ~ v.listening => Leaves(v)
  BY <1>1 DEF Ending, Working, Dark
<1>5. Answered(v) /\ ~ v.raced => Settled(v.socket)
  BY DEF Ending, Working, Calm, Settled, Answered
<1>6. Answered(v) /\ ~ v.raced => v.socket["control"] = "open"
  BY ChannelNames DEF Ending, Working, Calm, Answered
<1>7. Answered(v) /\ ~ v.raced /\ v.at = "interrupt" => Both(v.socket)
  BY <1>6, ChannelNames DEF Both, Answered
<1>8. QED
  BY <1>2, <1>3, <1>4, <1>5, <1>6, <1>7 DEF Ready, Answered

LEMMA EndingRestore ==
    ASSUME NEW v, Ending(v), v.at = "restore", NEW u \in Closed(v)
    PROVE  Sound(u)
<1>1. Finishing(v)
  BY DEF Ending, Working, Awake, Begun, Calm, Finishing
<1>2. QED
  BY <1>1, ClosedSound

(* BTHandleEvent's own loop returns to the loop that called it, and may    *)
(* have the program end.                                                   *)
Alike(s, v) ==
    /\ s.back = v.back /\ s.socket = v.socket /\ s.asked = v.asked
    /\ s.listening = v.listening /\ s.up = v.up /\ s.state = v.state
    /\ s.starting = v.starting /\ s.progressing = v.progressing /\ s.autooff = v.autooff
    /\ s.raced = v.raced /\ s.exitapp = v.exitapp /\ s.fault = v.fault

LEMMA LeavingMoving ==
    ASSUME NEW v, Moving(v)
    PROVE  LET s == Enqueue([v EXCEPT !.leaving = TRUE], Cmd("ExitApp"))
           IN  /\ Moving(s) /\ Alike(s, v) /\ s.leaving /\ s.at = v.at
               /\ \A C : Has(s.cmds, C) <=> Has(v.cmds, C) \/ Cmd("ExitApp") \in C
<1> DEFINE l == [v EXCEPT !.leaving = TRUE]
           s == Enqueue(l, Cmd("ExitApp"))
<1>1. v \in Worlds /\ v.cmds \in Seq(Commands)
  BY DEF Moving, Typed, Worlds
<1>2. l \in Worlds /\ l.leaving /\ l.cmds = v.cmds /\ l.back = v.back /\ l.at = v.at
  BY <1>1 DEF Worlds
<1>3. /\ l.socket = v.socket /\ l.asked = v.asked /\ l.listening = v.listening
      /\ l.up = v.up /\ l.state = v.state /\ l.starting = v.starting
  BY <1>1 DEF Worlds
<1>4. /\ l.progressing = v.progressing /\ l.autooff = v.autooff
      /\ l.raced = v.raced /\ l.exitapp = v.exitapp /\ l.fault = v.fault
  BY <1>1 DEF Worlds
<1> HIDE DEF l
<1>5. Typed(l)
  BY <1>2 DEF Typed
<1>6. Typed(s) /\ s.cmds = Append(v.cmds, Cmd("ExitApp")) /\ s.leaving /\ Alike(s, v) /\ s.at = v.at
  BY <1>2, <1>3, <1>4, <1>5, EnqueueFacts, ExitCommand DEF Alike
<1> HIDE DEF s
<1>7. /\ \A C : Has(s.cmds, C) <=> Has(v.cmds, C) \/ Cmd("ExitApp") \in C
      /\ NoneAfter(v.cmds, Late, Triggers) => NoneAfter(s.cmds, Late, Triggers)
      /\ NoneAfter(v.cmds, Blockers, {Ok}) => NoneAfter(s.cmds, Blockers, {Ok})
  BY <1>1, <1>6, AppendFacts, ExitCommand
<1>8. Moving(s)
  BY <1>6, <1>7, ExitCommand DEF Moving, Alike
<1>9. QED
  BY <1>6, <1>7, <1>8 DEF s, l

LEMMA EndingBack ==
    ASSUME NEW v, Ending(v), v.at = "radioBack", NEW s, Moving(s), Alike(s, v),
           v.leaving => s.leaving,
           \A C : Has(s.cmds, C) => Has(v.cmds, C) \/ Cmd("ExitApp") \in C
    PROVE  Sound([[Enqueue(s, Cmd("RadioError")) EXCEPT !.back = "main"] EXCEPT !.at = v.back])
<1> DEFINE q == Enqueue(s, Cmd("RadioError"))
           u == [[q EXCEPT !.back = "main"] EXCEPT !.at = v.back]
<1>1. v \in Worlds /\ "radioBack" \notin Starts \cup Ends \cup Idle \cup {"main"} \cup Channels
  BY ChannelNames DEF Ending, Working, Typed, Starts, Ends, Idle
<1>2. Typed(s)
  BY DEF Moving
<1>3. /\ Typed(q) /\ q.cmds = Append(s.cmds, Cmd("RadioError")) /\ q.back = v.back
      /\ q.socket = v.socket /\ q.asked = v.asked
      /\ q.listening = v.listening /\ q.up = v.up /\ q.state = v.state
      /\ q.starting = v.starting /\ q.progressing = v.progressing /\ q.autooff = v.autooff
      /\ q.raced = v.raced /\ q.exitapp = v.exitapp /\ q.fault = v.fault
      /\ q.leaving = s.leaving
  BY <1>2, EnqueueFacts, ExitCommand DEF Alike
<1>4. Moving(q)
  BY EnqueueMoving, ExitCommand
<1> HIDE DEF q
<1>5. s.cmds \in Seq(Commands)
  BY <1>2 DEF Typed, Worlds
<1>6. \A C : Has(q.cmds, C) <=> Has(s.cmds, C) \/ Cmd("RadioError") \in C
  BY <1>3, <1>5, AppendFacts, ExitCommand
<1>7. /\ ~ Has(v.cmds, Triggers) => ~ Has(q.cmds, Triggers)
      /\ ~ Has(v.cmds, {Ok}) => ~ Has(q.cmds, {Ok})
      /\ Has(q.cmds, Late)
  BY <1>6, ExitCommand
<1>8. v.back \in Loops /\ "main" \in QueueLoops \cup {"main"} /\ v.back \in QueueLoops \cup {"main"}
  BY <1>1 DEF Worlds, Loops
<1>9. /\ u \in Worlds /\ u.at = v.back
       /\ u.socket = q.socket /\ u.asked = q.asked /\ u.listening = q.listening
  <2>1. q \in Worlds
    BY <1>3 DEF Typed
  <2>2. u \in Worlds
    BY <1>8, <2>1 DEF Worlds
  <2>3. u.at = v.back
    BY <2>1 DEF Worlds
  <2>4. u.socket = q.socket /\ u.asked = q.asked /\ u.listening = q.listening
    BY <2>1 DEF Worlds
  <2>5. QED
    BY <2>2, <2>3, <2>4
<1>10. /\ u.up = q.up /\ u.state = q.state /\ u.starting = q.starting
       /\ u.progressing = q.progressing /\ u.autooff = q.autooff /\ u.raced = q.raced
  BY <1>3 DEF Typed, Worlds
<1>11. /\ u.exitapp = q.exitapp /\ u.fault = q.fault /\ u.leaving = q.leaving
       /\ u.cmds = q.cmds
  BY <1>3 DEF Typed, Worlds
<1> HIDE DEF u
<1>12. /\ v.back \notin Starts \cup Ends \cup Channels \cup Idle
       /\ v.back \notin {"unlink", "unlinkBusy"}
       /\ \A L : v.back \in L => At(v, L)
       /\ \A L : At(u, L) => At(v, L) \/ "radioBack" \in L
  BY <1>8, <1>9, ChannelNames DEF QueueLoops, Starts, Ends, Idle, At
<1>13. Typed(u) /\ Counted(u) /\ Kept(u) /\ Shown(u) /\ Awake(u) /\ Begun(u)
  <2>1. v.progressing /\ ~ v.starting
    BY <1>1 DEF Ending, Working, Shown, Begun
  <2>2. Counted(u)
    BY <1>3, <1>8, <1>9, <1>10, <1>12 DEF Ending, Working, Counted
  <2>3. Kept(u) /\ Typed(u)
    BY <1>4, <1>9, <1>11 DEF Kept, Moving, Typed
  <2>4. Shown(u) /\ Awake(u)
    BY <1>3, <1>4, <1>7, <1>10, <1>11, <2>1 DEF Shown, Awake, Moving
  <2>5. Begun(u)
    BY <1>3, <1>4, <1>9, <1>10, <1>12, <2>1 DEF Begun, Starts, Moving
  <2>6. QED
    BY <2>2, <2>3, <2>4, <2>5
<1>14. Unplugged(u)
  BY <1>3, <1>9, <1>12 DEF Ending, Working, Unplugged
<1>15. Dark(u)
  BY <1>1, <1>3, <1>7, <1>9, <1>11, <1>12 DEF Ending, Working, Dark, Leaves
<1>16. Calm(u)
  <2> SUFFICES ASSUME ~ v.raced PROVE Calm(u)
    BY <1>3, <1>10 DEF Calm
  <2>1. Settled(v.socket)
    BY <1>1 DEF Ending, Working, Calm, Settled
  <2>2. At(u, Silent) => ~ Has(u.cmds, {Ok})
    BY <1>7, <1>11, <1>12 DEF Ending, Working, Calm, Silent, Closing
  <2>3. u.up \/ At(u, Paired) => Both(u.socket)
    BY <1>3, <1>9, <1>10, <1>12 DEF Ending, Working, Calm, Paired
  <2>4. NoneAfter(u.cmds, Blockers, {Ok})
    BY <1>3, <1>4, <1>11 DEF Moving
  <2>5. QED
    BY <1>3, <1>9, <1>12, <2>1, <2>2, <2>3, <2>4, ChannelNames DEF Calm, Settled
<1>17. Sound(u)
  BY <1>4, <1>11, <1>13, <1>14, <1>15, <1>16 DEF Sound, Moving
<1>18. QED
  BY <1>17 DEF u, q

LEMMA ReturnedSound ==
    ASSUME NEW v, Ending(v), NEW err, v.at \in Channels /\ err = "ok" => Answered(v),
           NEW u \in Returned(v, err)
    PROVE  Sound(u)
<1>1. v.at \in {"radioUp", "accessible", "mode"} \cup Silent \cup {"wait", "settle", "firstIn"}
               \cup Channels \cup {"radioBack", "restore"}
  <2>1. v.at \in Loops /\ v.at \notin Idle \cup {"main"}
    BY DEF Ending, Working, Typed, Worlds
  <2>2. QED
    BY <2>1, LoopNames DEF Idle, Silent, Closing, Channels
<1>2. CASE v.at \in {"radioUp", "accessible", "mode"}
  <2>1. Radio(v)
    BY <1>2, EndingRadio
  <2>2. CASE v.at = "radioUp"
    <3>1. u \in (IF err = "initialized" THEN Go(v, "accessible") ELSE RadioFailed(v))
      BY <2>2 DEF Returned
    <3>2. QED
      BY <2>1, <3>1, RadioLoop, RadioFailedSound DEF Go
  <2>3. CASE v.at = "accessible"
    <3>1. u \in (IF err \in {"ok", "timeout"} THEN SetMode(v) ELSE RadioFailed(v))
      BY <2>3 DEF Returned
    <3>2. QED
      BY <2>1, <3>1, SetModeSound, RadioFailedSound
  <2>4. CASE v.at = "mode"
    <3>1. u \in (IF err = "canceled" THEN RadioFailed(v) ELSE RadioReady(v))
      BY <2>4 DEF Returned
    <3>2. QED
      BY <2>1, <3>1, RadioReadySound, RadioFailedSound
  <2>5. QED
    BY <1>2, <2>2, <2>3, <2>4
<1>3. CASE v.at \in Silent
  <2>1. Ready(v) /\ (v.at \in {"prepare", "ignoring", "firstOut"} /\ ~ v.raced => Both(v.socket))
    BY <1>3, EndingReady
  <2>2. CASE v.at = "link"
    <3>1. u \in (IF err = "ok" THEN Linked(v) ELSE Cleanup(v))
      BY <2>2 DEF Returned
    <3>2. QED
      BY <2>1, <3>1, LinkedSound, ReadyCleanup
  <2>3. CASE v.at = "authenticate"
    <3>1. u \in Encrypt(v) \cup Control(v) \cup Cleanup(v)
      BY <2>3 DEF Returned
    <3>2. QED
      BY <2>1, <3>1, EncryptSound, ControlSound, ReadyCleanup
  <2>4. CASE v.at = "encrypt"
    <3>1. u \in (IF err = "ok" THEN Control(v) ELSE Cleanup(v))
      BY <2>4 DEF Returned
    <3>2. QED
      BY <2>1, <3>1, ControlSound, ReadyCleanup
  <2>5. CASE v.at = "prepare"
    <3>1. u \in (IF err = "ok" THEN Go(v, "ignoring") ELSE FirstReport(v, "firstOut"))
      BY <2>5 DEF Returned
    <3>2. QED
      BY <2>1, <2>5, <3>1, LoopSound, FirstOutSound DEF Go
  <2>6. CASE v.at = "ignoring"
    <3>1. u \in FirstReport(v, "firstOut")
      BY <2>6 DEF Returned
    <3>2. QED
      BY <2>1, <2>6, <3>1, FirstOutSound
  <2>7. CASE v.at = "firstOut"
    <3>1. u \in (IF err = "ok" THEN Online([v EXCEPT !.up = TRUE], TRUE) ELSE Cleanup(v))
      BY <2>7 DEF Returned
    <3>2. Landing(v) /\ TRUE \in BOOLEAN
      BY <2>1, ReadyLands
    <3>3. QED
      BY <2>1, <2>7, <3>1, <3>2, FirstSentSound, ReadyCleanup
  <2>8. CASE v.at = "drainInterrupt"
    <3>1. u \in InterruptDrained(v)
      BY <2>8 DEF Returned
    <3>2. QED
      BY <2>1, <3>1, InterruptDrainedSound
  <2>9. CASE v.at = "drainControl"
    <3>1. u \in ControlDrained(v)
      BY <2>9 DEF Returned
    <3>2. v.socket["interrupt"] = "none"
      BY <2>9 DEF Ending, Working, Unplugged, At
    <3>3. QED
      BY <2>1, <3>1, <3>2, ControlDrainedSound
  <2>10. CASE v.at = "unlink"
    <3>1. u \in Unlinked(v)
      BY <2>10 DEF Returned
    <3>2. QED
      BY <2>1, <3>1, UnlinkedSound
  <2>11. CASE v.at = "unlinkBusy"
    <3>1. u \in (IF err = "ok" THEN LinkDisconnect(v) ELSE Unlinked(v))
      BY <2>11 DEF Returned
    <3>2. v.socket = NoSockets
      BY <2>11 DEF Ending, Working, Unplugged
    <3>3. QED
      BY <2>1, <3>1, <3>2, LinkDisconnectSound, UnlinkedSound
  <2>12. QED
    BY <1>3, <2>2, <2>3, <2>4, <2>5, <2>6, <2>7, <2>8, <2>9, <2>10, <2>11 DEF Silent, Closing
<1>4. CASE v.at \in {"wait", "settle", "firstIn"}
  <2>1. Waiting(v) /\ (v.at # "wait" /\ ~ v.raced => Both(v.socket))
    BY <1>4, EndingWaiting
  <2>2. CASE v.at = "wait"
    <3>1. u \in (IF err = "ok" THEN BTWait(v) ELSE WaitFailed(v, err))
      BY <2>2 DEF Returned
    <3>2. QED
      BY <2>1, <3>1, BTWaitSound, WaitFailedSound
  <2>3. CASE v.at = "settle"
    <3>1. u \in FirstReport(v, "firstIn")
      BY <2>3 DEF Returned
    <3>2. QED
      BY <2>1, <2>3, <3>1, FirstInSound
  <2>4. CASE v.at = "firstIn"
    <3>1. u \in (IF err = "ok" THEN Online([v EXCEPT !.up = TRUE], FALSE) ELSE WaitFailed(v, err))
      BY <2>4 DEF Returned
    <3>2. Landing(v) /\ FALSE \in BOOLEAN
      BY <2>1, WaitingLands
    <3>3. QED
      BY <2>1, <2>4, <3>1, <3>2, FirstSentSound, WaitFailedSound
  <2>5. QED
    BY <1>4, <2>2, <2>3, <2>4
<1>5. CASE v.at \in Channels
  <2>1. /\ Moving(v) /\ ~ v.starting /\ (~ v.listening => Leaves(v))
        /\ Answered(v) => Ready(v)
        /\ Answered(v) /\ ~ v.raced => v.socket["control"] = "open"
        /\ Answered(v) /\ ~ v.raced /\ v.at = "interrupt" => Both(v.socket)
    BY <1>5, EndingConnect
  <2>2. u \in (IF err # "ok" THEN Cleanup(v)
               ELSE IF v.at = "interrupt" THEN Prepare(v) ELSE Interrupt(v))
    BY <1>5, ChannelNames DEF Returned
  <2>3. CASE err # "ok"
    BY <2>1, <2>2, <2>3, CleanupSound
  <2>4. CASE err = "ok" /\ v.at = "interrupt"
    BY <1>5, <2>1, <2>2, <2>4, PrepareSound
  <2>5. CASE err = "ok" /\ v.at # "interrupt"
    BY <1>5, <2>1, <2>2, <2>5, InterruptSound
  <2>6. QED
    BY <2>3, <2>4, <2>5
<1>6. CASE v.at = "radioBack"
  <2> DEFINE s == IF err = "initialized" THEN v
                  ELSE Enqueue([v EXCEPT !.leaving = TRUE], Cmd("ExitApp"))
  <2>1. u = [[Enqueue(s, Cmd("RadioError")) EXCEPT !.back = "main"] EXCEPT !.at = v.back]
    BY <1>6 DEF Returned, Go
  <2>2. Moving(v)
    BY <1>6, EndingMoving DEF Ends
  <2>3. CASE err = "initialized"
    <3>1. Alike(v, v) /\ s = v
      BY <2>3 DEF Alike
    <3> HIDE DEF s
    <3>2. QED
      BY <1>6, <2>1, <2>2, <3>1, EndingBack
  <2>4. CASE err # "initialized"
    <3>1. s = Enqueue([v EXCEPT !.leaving = TRUE], Cmd("ExitApp"))
      BY <2>4
    <3> HIDE DEF s
    <3>2. /\ Moving(s) /\ Alike(s, v) /\ s.leaving
          /\ \A C : Has(s.cmds, C) <=> Has(v.cmds, C) \/ Cmd("ExitApp") \in C
      BY <2>2, <3>1, LeavingMoving
    <3>3. QED
      BY <1>6, <2>1, <3>2, EndingBack
  <2>5. QED
    BY <2>3, <2>4
<1>7. CASE v.at = "restore"
  <2>1. u \in Closed(v)
    BY <1>7 DEF Returned
  <2>2. QED
    BY <1>7, <2>1, EndingRestore
<1>8. QED
  BY <1>1, <1>2, <1>3, <1>4, <1>5, <1>6, <1>7

-----------------------------------------------------------------------------
(* A world with other commands, none of which starts anything.             *)
Queued(s, v) ==
    /\ Typed(s) /\ s.at = v.at /\ s.back = v.back /\ s.socket = v.socket /\ s.asked = v.asked
    /\ s.listening = v.listening /\ s.state = v.state /\ s.starting = v.starting
    /\ s.progressing = v.progressing /\ s.autooff = v.autooff /\ s.raced = v.raced
    /\ s.fault = v.fault /\ (s.up => v.up) /\ (v.leaving => s.leaving)
    /\ \A C \in {Triggers, {Ok}} : Has(s.cmds, C) => Has(v.cmds, C)
    /\ NoneAfter(v.cmds, Late, Triggers) => NoneAfter(s.cmds, Late, Triggers)
    /\ NoneAfter(v.cmds, Blockers, {Ok}) => NoneAfter(s.cmds, Blockers, {Ok})
    /\ AtMostOne(v.cmds, {Ok}) => AtMostOne(s.cmds, {Ok})
    /\ v.at = "main" /\ Has(v.cmds, Late) => Has(s.cmds, Late)

LEMMA QueuedWorks ==
    ASSUME NEW v, Working(v), NEW s, Queued(s, v)
    PROVE  Working(s)
<1>1. Typed(s) /\ Counted(s) /\ Unplugged(s) /\ Shown(s) /\ Awake(s)
  BY DEF Queued, Working, Typed, Counted, Unplugged, At, Shown, Awake
<1>2. Begun(s) /\ Dark(s)
  BY DEF Queued, Working, Begun, Dark, Leaves, At
<1>3. Calm(s)
  BY DEF Queued, Working, Calm, At
<1>4. QED
  BY <1>1, <1>2, <1>3 DEF Working, Queued

LEMMA EnqueueQueued ==
    ASSUME NEW v, Typed(v), NEW x \in Commands, x \notin Triggers
    PROVE  /\ Queued(Enqueue(v, x), v)
           /\ Enqueue(v, x).exitapp = v.exitapp /\ Enqueue(v, x).leaving = v.leaving
           /\ \A C : Has(Enqueue(v, x).cmds, C) <=> Has(v.cmds, C) \/ x \in C
<1> DEFINE s == Enqueue(v, x)
<1>1. /\ Typed(s) /\ s.cmds = Append(v.cmds, x) /\ s.at = v.at /\ s.back = v.back
      /\ s.socket = v.socket /\ s.asked = v.asked /\ s.listening = v.listening /\ s.up = v.up
      /\ s.state = v.state /\ s.starting = v.starting /\ s.exitapp = v.exitapp
      /\ s.progressing = v.progressing /\ s.autooff = v.autooff /\ s.fault = v.fault
      /\ s.leaving = v.leaving /\ s.raced = v.raced
  BY EnqueueFacts
<1> HIDE DEF s
<1>2. v.cmds \in Seq(Commands) /\ x \notin {Ok}
  BY DEF Typed, Worlds, Triggers
<1>3. /\ \A C : Has(s.cmds, C) <=> Has(v.cmds, C) \/ x \in C
      /\ NoneAfter(v.cmds, Late, Triggers) => NoneAfter(s.cmds, Late, Triggers)
      /\ NoneAfter(v.cmds, Blockers, {Ok}) => NoneAfter(s.cmds, Blockers, {Ok})
      /\ AtMostOne(v.cmds, {Ok}) => AtMostOne(s.cmds, {Ok})
  BY <1>1, <1>2, AppendFacts
<1>4. Queued(s, v)
  BY <1>1, <1>2, <1>3 DEF Queued
<1>5. QED
  BY <1>1, <1>3, <1>4 DEF s

LEMMA EnqueueSound ==
    ASSUME NEW v, Sound(v), NEW x \in Commands, x \notin Triggers
    PROVE  Sound(Enqueue(v, x))
<1> DEFINE s == Enqueue(v, x)
<1>1. /\ Queued(s, v) /\ s.exitapp = v.exitapp /\ s.leaving = v.leaving
      /\ \A C : Has(s.cmds, C) <=> Has(v.cmds, C) \/ x \in C
  BY EnqueueQueued DEF Sound
<1> HIDE DEF s
<1>2. Working(s)
  BY <1>1, QueuedWorks, SoundWorks
<1>3. Kept(s)
  BY <1>1 DEF Kept, Sound, Queued
<1>4. Sound(s)
  BY <1>2, <1>3, SoundWorks
<1>5. QED
  BY <1>4 DEF s

LEMMA EndedSound ==
    ASSUME NEW v, Working(v), v.fault = "none", v.at \notin Idle \cup {"main"},
           v.leaving /\ v.at \notin Ends => v.exitapp \/ Has(v.cmds, {Cmd("ExitApp")}),
           NEW err, v.at \in Channels /\ err = "ok" => Answered(v), NEW u \in Ended(v, err)
    PROVE  Sound(u)
<1> DEFINE x == IF v.exitapp THEN Enqueue(v, Cmd("ExitApp")) ELSE v
           s == [x EXCEPT !.exitapp = FALSE]
<1>1. Typed(v)
  BY DEF Working
<1>2. /\ Queued(x, v) /\ x.leaving = v.leaving
      /\ \A C : Has(v.cmds, C) => Has(x.cmds, C)
      /\ v.exitapp => Has(x.cmds, {Cmd("ExitApp")})
  <2>1. CASE v.exitapp
    BY <1>1, <2>1, EnqueueQueued, ExitCommand
  <2>2. CASE ~ v.exitapp
    BY <1>1, <2>2 DEF Queued
  <2>3. QED
    BY <2>1, <2>2
<1> HIDE DEF x
<1>3. s \in Worlds /\ ~ s.exitapp
  BY <1>2 DEF Queued, Typed, Worlds
<1>4. /\ s.at = x.at /\ s.back = x.back /\ s.socket = x.socket /\ s.asked = x.asked
      /\ s.listening = x.listening /\ s.state = x.state /\ s.starting = x.starting
  BY <1>2 DEF Queued, Typed, Worlds
<1>5. /\ s.progressing = x.progressing /\ s.autooff = x.autooff /\ s.raced = x.raced
      /\ s.fault = x.fault /\ s.up = x.up /\ s.leaving = x.leaving /\ s.cmds = x.cmds
  BY <1>2 DEF Queued, Typed, Worlds
<1>6. u \in Returned(s, err)
  BY DEF Ended, x
<1> HIDE DEF s
<1>7. Queued(s, v)
  BY <1>2, <1>3, <1>4, <1>5 DEF Queued, Typed
<1>8. Working(s)
  BY <1>7, QueuedWorks
<1>9. Ending(s)
  BY <1>2, <1>3, <1>4, <1>5, <1>8 DEF Ending, Queued
<1>10. s.at \in Channels /\ err = "ok" => Answered(s)
  BY <1>7 DEF Answered, Queued
<1>11. QED
  BY <1>6, <1>9, <1>10, ReturnedSound

LEMMA EndedFromSound ==
    ASSUME NEW v, Sound(v), v.fault = "none", v.at \notin Idle \cup {"main"},
           NEW err, v.at \in Channels /\ err = "ok" => Answered(v), NEW u \in Ended(v, err)
    PROVE  Sound(u)
  BY EndedSound, SoundWorks DEF Kept

LEMMA ExitSound ==
    ASSUME NEW v, Working(v), v.fault = "none", v.at \notin Idle \cup {"main"}, NEW u \in Exit(v)
    PROVE  Sound(u)
<1> DEFINE s == [v EXCEPT !.exitapp = TRUE, !.leaving = TRUE]
<1>1. v \in Worlds
  BY DEF Working, Typed
<1>2. s \in Worlds /\ s.exitapp /\ s.leaving
  BY <1>1 DEF Worlds
<1>3. /\ s.at = v.at /\ s.back = v.back /\ s.socket = v.socket /\ s.asked = v.asked
      /\ s.listening = v.listening /\ s.state = v.state /\ s.starting = v.starting
  BY <1>1 DEF Worlds
<1>4. /\ s.progressing = v.progressing /\ s.autooff = v.autooff /\ s.raced = v.raced
      /\ s.fault = v.fault /\ s.up = v.up /\ s.cmds = v.cmds
  BY <1>1 DEF Worlds
<1>5. u \in IF Cancelable(v.at) THEN Ended(s, "canceled") ELSE {s}
  BY DEF Exit
<1> HIDE DEF s
<1>6. Queued(s, v)
  BY <1>2, <1>3, <1>4 DEF Queued, Typed
<1>7. Working(s)
  BY <1>6, QueuedWorks
<1>8. CASE Cancelable(v.at)
  BY <1>2, <1>3, <1>4, <1>5, <1>7, <1>8, EndedSound
<1>9. CASE ~ Cancelable(v.at)
  BY <1>2, <1>3, <1>5, <1>7, <1>9, SoundWorks DEF Cancelable, Kept
<1>10. QED
  BY <1>8, <1>9

LEMMA RestSound ==
    ASSUME NEW v, Sound(v), v.fault = "none", v.at \notin Idle, NEW u \in Rest(v)
    PROVE  Sound(u)
<1>1. CASE u = v
  BY <1>1
<1>2. CASE v.at # "main" /\ u \in UNION {Ended(v, err) : err \in {"error", "canceled", "timeout"}}
  BY <1>2, EndedFromSound
<1>3. CASE v.at \in QueueLoops /\ u \in Ended(v, "ok")
  <2>1. v.at \notin Channels \cup {"main"}
    BY <1>3 DEF QueueLoops, Channels
  <2>2. QED
    BY <1>3, <2>1, EndedFromSound
<1>4. v.at = "main" => u = v
  BY DEF Rest, Lost, QueueLoops
<1>5. v.at # "main" => \/ u = v \/ u \in UNION {Ended(v, err) : err \in {"error", "canceled", "timeout"}}
                       \/ v.at \in QueueLoops /\ u \in Ended(v, "ok")
  BY DEF Rest
<1>6. QED
  BY <1>1, <1>2, <1>3, <1>4, <1>5

-----------------------------------------------------------------------------
(* An iteration takes the first command.                                   *)
Taken(v) == [v EXCEPT !.cmds = Tail(@)]

LEMMA TakenFacts ==
    ASSUME NEW v, Typed(v), v.cmds # <<>>
    PROVE  LET t == Taken(v)
               x == Head(v.cmds)
           IN  /\ Typed(t) /\ t.at = v.at /\ t.back = v.back /\ t.socket = v.socket
               /\ t.asked = v.asked /\ t.listening = v.listening /\ t.state = v.state
               /\ t.starting = v.starting /\ t.progressing = v.progressing
               /\ t.autooff = v.autooff /\ t.raced = v.raced /\ t.fault = v.fault
               /\ t.up = v.up /\ t.leaving = v.leaving /\ t.exitapp = v.exitapp
               /\ x \in Commands
               /\ \A C : Has(v.cmds, C) <=> x \in C \/ Has(t.cmds, C)
               /\ \A B, C : NoneAfter(v.cmds, B, C)
                               => NoneAfter(t.cmds, B, C) /\ (x \in B => ~ Has(t.cmds, C))
               /\ \A C : AtMostOne(v.cmds, C)
                            => AtMostOne(t.cmds, C) /\ (x \in C => ~ Has(t.cmds, C))
<1> DEFINE t == Taken(v)
           x == Head(v.cmds)
<1>1. v \in Worlds /\ v.cmds \in Seq(Commands)
  BY DEF Typed, Worlds
<1>2. t.cmds = Tail(v.cmds)
  BY <1>1 DEF Worlds, Taken
<1>3. /\ Tail(v.cmds) \in Seq(Commands) /\ x \in Commands
      /\ \A C : Has(v.cmds, C) <=> x \in C \/ Has(Tail(v.cmds), C)
      /\ \A B, C : NoneAfter(v.cmds, B, C)
                      => NoneAfter(Tail(v.cmds), B, C) /\ (x \in B => ~ Has(Tail(v.cmds), C))
      /\ \A C : AtMostOne(v.cmds, C)
                   => AtMostOne(Tail(v.cmds), C) /\ (x \in C => ~ Has(Tail(v.cmds), C))
  BY <1>1, TailFacts
<1>4. Typed(t)
  BY <1>1, <1>3 DEF Worlds, Taken, Typed
<1>5. /\ t.at = v.at /\ t.back = v.back /\ t.socket = v.socket
      /\ t.asked = v.asked /\ t.listening = v.listening /\ t.state = v.state
      /\ t.starting = v.starting /\ t.progressing = v.progressing
  BY <1>1 DEF Worlds, Taken
<1>6. /\ t.autooff = v.autooff /\ t.raced = v.raced /\ t.fault = v.fault
      /\ t.up = v.up /\ t.leaving = v.leaving /\ t.exitapp = v.exitapp
  BY <1>1 DEF Worlds, Taken
<1> HIDE DEF t, x
<1>7. QED
  BY <1>2, <1>3, <1>4, <1>5, <1>6 DEF t, x

LEMMA TakenWorks ==
    ASSUME NEW v, Sound(v), v.cmds # <<>>
    PROVE  /\ v.at # "main" => Working(Taken(v))
           /\ v.at # "main" /\ Head(v.cmds) # Cmd("ExitApp") => Sound(Taken(v))
           /\ Head(v.cmds) \notin Late => Sound(Taken(v))
<1> DEFINE t == Taken(v)
           x == Head(v.cmds)
<1>1. /\ Typed(t) /\ t.at = v.at /\ t.back = v.back /\ t.socket = v.socket
      /\ t.asked = v.asked /\ t.listening = v.listening /\ t.state = v.state
      /\ t.starting = v.starting /\ t.progressing = v.progressing
      /\ t.autooff = v.autooff /\ t.raced = v.raced /\ t.fault = v.fault
      /\ t.up = v.up /\ t.leaving = v.leaving /\ t.exitapp = v.exitapp
      /\ \A C : Has(v.cmds, C) <=> x \in C \/ Has(t.cmds, C)
      /\ \A B, C : NoneAfter(v.cmds, B, C) => NoneAfter(t.cmds, B, C)
      /\ \A C : AtMostOne(v.cmds, C) => AtMostOne(t.cmds, C)
  BY TakenFacts DEF Sound
<1> HIDE DEF t, x
<1>2. v.at # "main" \/ x \notin Late => Queued(t, v)
  BY <1>1 DEF Queued
<1>3. v.at # "main" \/ x \notin Late => Working(t)
  BY <1>2, QueuedWorks, SoundWorks
<1>4. x # Cmd("ExitApp") => Kept(t)
  BY <1>1 DEF Sound, Kept
<1>5. x \notin Late => x # Cmd("ExitApp")
  BY DEF Late
<1>6. QED
  BY <1>3, <1>4, <1>5, SoundWorks DEF t, x

(* In the main loop.                                                       *)
LEMMA TakenLands ==
    ASSUME NEW v, Sound(v), v.at = "main", v.fault = "none", v.cmds # <<>>
    PROVE  LET t == Taken(v)
               x == Head(v.cmds)
           IN  /\ Finishing(t)
               /\ ~ t.raced => Settled(t.socket) /\ (t.up => Both(t.socket))
               /\ ~ t.listening => t.asked = {}
               /\ ~ t.starting
               /\ x # Cmd("ExitApp") => Landing(t)
               /\ x # Cmd("ExitApp") /\ x \in Blockers => Parting(t)
               /\ x \in Late => ~ Has(t.cmds, Triggers)
               /\ x \in Triggers => t.listening
<1> DEFINE t == Taken(v)
           x == Head(v.cmds)
<1>1. /\ Typed(t) /\ t.at = v.at /\ t.back = v.back /\ t.socket = v.socket
      /\ t.asked = v.asked /\ t.listening = v.listening /\ t.state = v.state
      /\ t.starting = v.starting /\ t.progressing = v.progressing
      /\ t.autooff = v.autooff /\ t.raced = v.raced /\ t.fault = v.fault
      /\ t.up = v.up /\ t.leaving = v.leaving /\ t.exitapp = v.exitapp
      /\ \A C : Has(v.cmds, C) <=> x \in C \/ Has(t.cmds, C)
      /\ \A B, C : NoneAfter(v.cmds, B, C) => NoneAfter(t.cmds, B, C) /\ (x \in B => ~ Has(t.cmds, C))
  BY TakenFacts DEF Sound
<1> HIDE DEF t, x
<1>2. "main" \notin Fixed \cup Starts \cup Ends \cup Channels /\ "main" # "closed"
  BY ChannelNames DEF Fixed, Starts, Ends
<1>3. ~ t.exitapp /\ ~ t.starting /\ t.autooff # "closed"
  BY <1>1, <1>2 DEF Sound, Kept, Begun, Awake
<1>4. Finishing(t)
  BY <1>1, <1>3 DEF Sound, Calm, Finishing
<1>5. ~ t.listening => t.asked = {}
  BY <1>1 DEF Sound, Begun
<1>6. ~ t.raced => Settled(t.socket) /\ (t.up => Both(t.socket))
  BY <1>1, <1>2 DEF Sound, Calm, Settled
<1>7. ~ t.listening => Leaves(t) /\ \A c \in Channels : t.socket[c] # "pending"
  BY <1>1, <1>2 DEF Sound, Dark, Leaves
<1>8. x # Cmd("ExitApp") => Landing(t)
  BY <1>1, <1>2, <1>3, <1>4, <1>5, <1>6, <1>7 DEF Sound, Kept, Finishing, Landing, Moving
<1>9. x # Cmd("ExitApp") /\ x \in Blockers => Parting(t)
  BY <1>1, <1>8 DEF Sound, Calm, Parting
<1>10. x \in Late => ~ Has(t.cmds, Triggers)
  BY <1>1 DEF Sound
<1>11. x \in Triggers => t.listening
  BY <1>1, <1>2 DEF Sound, Dark, Leaves
<1>12. QED
  BY <1>3, <1>4, <1>5, <1>6, <1>8, <1>9, <1>10, <1>11 DEF t, x

(* AppEventLoop.                                                           *)
LEMMA ConnectSound ==
    ASSUME NEW v, Parting(v), NEW u \in BTConnect(ProgressStart(v))
    PROVE  Sound(u)
<1> DEFINE t == ProgressStart(v)
<1>1. v \in Worlds /\ Same(v, v) /\ v.autooff # "closed"
  BY DEF Parting, Landing, Moving, Typed, Same
<1>2. Landing(t) /\ t.up = v.up /\ (~ v.up => Ready(t))
  BY <1>1, PartingReady
<1> HIDE DEF t
<1>3. u \in BTConnect(t)
  BY DEF t
<1>4. CASE ~ v.up
  BY <1>2, <1>3, <1>4, BTConnectSound
<1>5. CASE v.up
  <2>1. u \in Online(t, TRUE) /\ TRUE \in BOOLEAN
    BY <1>2, <1>3, <1>5 DEF BTConnect
  <2>2. QED
    BY <1>2, <2>1, OnlineSound
<1>6. QED
  BY <1>4, <1>5

LEMMA AppEventLoopSound ==
    ASSUME NEW v, Sound(v), v.at = "main", v.fault = "none", v.cmds # <<>>,
           NEW u \in AppEventLoop(Taken(v), Head(v.cmds))
    PROVE  Sound(u)
<1> DEFINE t == Taken(v)
           x == Head(v.cmds)
<1>1. /\ Finishing(t)
      /\ ~ t.raced => Settled(t.socket) /\ (t.up => Both(t.socket))
      /\ ~ t.listening => t.asked = {}
      /\ ~ t.starting
      /\ x # Cmd("ExitApp") => Landing(t)
      /\ x # Cmd("ExitApp") /\ x \in Blockers => Parting(t)
      /\ x \in Late => ~ Has(t.cmds, Triggers)
      /\ x \in Triggers => t.listening
  BY TakenLands
<1>2. x \notin Late => Sound(t)
  BY TakenWorks
<1>3. t.at = "main" /\ t \in Worlds
  BY TakenFacts DEF Sound, Typed
<1> HIDE DEF t, x
<1>4. u \in AppEventLoop(t, x)
  BY DEF t, x
<1>5. CASE x \in Triggers
  <2>1. x # Cmd("ExitApp") /\ x \notin Late /\ x # Cmd("InitiateConnect") /\ x # Cmd("Unplug")
        /\ x # Cmd("InitiateDisconnect") /\ x # Cmd("ConnectionError") /\ x # Cmd("RadioError")
    BY <1>5 DEF Triggers, Late, Ok, Cmd
  <2>2. u \in Wait(t) \/ u = t
    BY <1>4, <2>1 DEF AppEventLoop
  <2>3. QED
    BY <1>1, <1>2, <1>5, <2>1, <2>2, WaitSound
<1>6. CASE x \in {Cmd("InitiateConnect"), Cmd("InitiateDisconnect"), Cmd("ConnectionError")}
  <2>1. x \in Blockers /\ x # Cmd("ExitApp") /\ x \notin Late /\ x \notin Triggers
        /\ x # Cmd("RadioError") /\ x # Cmd("Unplug")
    BY <1>6 DEF Triggers, Late, Ok, Cmd, Blockers
  <2>2. Parting(t) /\ Sound(t)
    BY <1>1, <1>2, <2>1
  <2>3. x \in Triggers <=> x \in {Ok, Cmd("WaitConnection")}
    BY DEF Triggers
  <2>4. u \in Connect(t) \/ u \in Disconnect(t) \/ u \in Reconnect(t) \/ u = t
    BY <1>4, <1>6, <2>1, <2>3 DEF AppEventLoop, Cmd
  <2>5. [t EXCEPT !.at = "main"] = t
    BY <1>3 DEF Worlds
  <2>6. CASE u \in Connect(t)
    BY <2>2, <2>5, <2>6, ConnectSound DEF Connect
  <2>7. QED
    BY <2>2, <2>4, <2>6, DisconnectSound, ReconnectSound
<1>7. CASE x = Cmd("Unplug")
  <2>1. x # Cmd("ExitApp") /\ x \notin Late /\ x \notin {Ok, Cmd("WaitConnection")}
        /\ x # Cmd("InitiateConnect") /\ x # Cmd("InitiateDisconnect")
        /\ x # Cmd("ConnectionError") /\ x # Cmd("RadioError")
    BY <1>7 DEF Late, Ok, Cmd
  <2>2. u \in Offline(t) \/ u = t
    BY <1>4, <2>1 DEF AppEventLoop
  <2>3. QED
    BY <1>1, <1>2, <2>1, <2>2, OfflineSound
<1>8. CASE x = Cmd("RadioError")
  <2>1. x # Cmd("ExitApp") /\ x \in Late /\ x \notin {Ok, Cmd("WaitConnection")}
        /\ x # Cmd("InitiateConnect") /\ x # Cmd("InitiateDisconnect")
        /\ x # Cmd("ConnectionError") /\ x # Cmd("Unplug")
    BY <1>8 DEF Late, Ok, Cmd
  <2>2. u \in ReinitRadio(t)
    BY <1>4, <1>8, <2>1 DEF AppEventLoop
  <2>3. Moving(t) /\ ~ Has(t.cmds, Triggers)
    BY <1>1, <2>1 DEF Landing
  <2>4. QED
    BY <1>1, <2>2, <2>3, ReinitRadioSound
<1>9. CASE x = Cmd("ExitApp")
  <2>1. x \notin {Ok, Cmd("WaitConnection")}
        /\ x # Cmd("InitiateConnect") /\ x # Cmd("InitiateDisconnect")
        /\ x # Cmd("ConnectionError") /\ x # Cmd("Unplug") /\ x # Cmd("RadioError")
    BY <1>9 DEF Ok, Cmd
  <2>2. u \in BTClose(t)
    BY <1>4, <1>9, <2>1 DEF AppEventLoop
  <2>3. QED
    BY <1>1, <2>2, BTCloseSound
<1>10. CASE x \notin Triggers /\ x \notin Late /\ x # Cmd("Unplug")
            /\ x \notin {Cmd("InitiateConnect"), Cmd("InitiateDisconnect"), Cmd("ConnectionError")}
  <2>1. u = t
    BY <1>4, <1>10 DEF AppEventLoop, Triggers, Late
  <2>2. QED
    BY <1>2, <1>10, <2>1
<1>11. QED
  BY <1>5, <1>6, <1>7, <1>8, <1>9, <1>10 DEF Late

-----------------------------------------------------------------------------
(* BTHandleEvent.                                                          *)
LEMMA HandledFacts ==
    ASSUME NEW x \in Commands, Handled(x)
    PROVE  /\ x \in {<<"ACLDisconnect", "user">>, <<"ACLDisconnect", "lost">>, <<"Send", "error">>,
                     <<"Radio", "initialized">>, <<"Radio", "fatal">>}
           /\ x \notin Late \cup Triggers /\ x # Cmd("ExitApp")
<1>1. CASE x \in Results
  BY <1>1 DEF Results, Ok, Handled, Late, Triggers, Cmd
<1>2. CASE \E name \in Names : x = Cmd(name)
  BY <1>2 DEF Names, Cmd, Handled
<1>3. QED
  BY <1>1, <1>2 DEF Commands

LEMMA DownSound ==
    ASSUME NEW v, Sound(v)
    PROVE  Sound([v EXCEPT !.up = FALSE])
<1> DEFINE s == [v EXCEPT !.up = FALSE]
<1>1. v \in Worlds
  BY DEF Sound, Typed
<1>2. s \in Worlds /\ ~ s.up
  BY <1>1 DEF Worlds
<1>3. /\ s.at = v.at /\ s.back = v.back /\ s.socket = v.socket /\ s.asked = v.asked
      /\ s.listening = v.listening /\ s.state = v.state /\ s.starting = v.starting
  BY <1>1 DEF Worlds
<1>4. /\ s.progressing = v.progressing /\ s.autooff = v.autooff /\ s.raced = v.raced
      /\ s.fault = v.fault /\ s.cmds = v.cmds /\ s.leaving = v.leaving /\ s.exitapp = v.exitapp
  BY <1>1 DEF Worlds
<1> HIDE DEF s
<1>5. Queued(s, v)
  BY <1>2, <1>3, <1>4 DEF Queued, Typed
<1>6. Working(s)
  BY <1>5, QueuedWorks, SoundWorks
<1>7. Kept(s)
  BY <1>3, <1>4 DEF Sound, Kept
<1>8. Sound(s)
  BY <1>6, <1>7, SoundWorks
<1>9. QED
  BY <1>8 DEF s

LEMMA RadioBackSound ==
    ASSUME NEW v, Sound(v), v.fault = "none", v.at \in QueueLoops \cup {"main"},
           NEW u \in Go([ProgressStart(v) EXCEPT !.back = v.at], "radioBack")
    PROVE  Sound(u)
<1> DEFINE t == ProgressStart(v)
<1>1. v.at \notin Starts \cup Ends \cup Channels \cup {"closed", "unlink", "unlinkBusy", "radioBack"}
  BY ChannelNames DEF QueueLoops, Starts, Ends
<1>2. v \in Worlds /\ v.autooff # "closed"
  BY <1>1 DEF Sound, Typed, Awake
<1>3. t \in Worlds /\ Still(t, v) /\ t.progressing /\ t.autooff = "disabled"
  BY <1>2, StartFacts
<1>4. u = [[t EXCEPT !.back = v.at] EXCEPT !.at = "radioBack"]
  BY DEF Go
<1> HIDE DEF t
<1>5. "radioBack" \in Loops
  BY LoopNames
<1>6. u \in Worlds /\ u.at = "radioBack" /\ u.back = v.at
  BY <1>3, <1>4, <1>5 DEF Worlds
<1>7. /\ u.socket = t.socket /\ u.asked = t.asked /\ u.listening = t.listening /\ u.up = t.up
      /\ u.starting = t.starting /\ u.exitapp = t.exitapp /\ u.fault = t.fault
  BY <1>3, <1>4 DEF Worlds
<1>8. /\ u.cmds = t.cmds /\ u.leaving = t.leaving /\ u.raced = t.raced
      /\ u.progressing = t.progressing /\ u.autooff = t.autooff
  BY <1>3, <1>4 DEF Worlds
<1>9. Same(u, v)
  BY <1>3, <1>7, <1>8 DEF Still, Same
<1>10. /\ \A L : At(u, L) => v.at \in L \/ "radioBack" \in L
       /\ \A L : v.at \in L => At(v, L)
  BY <1>6 DEF At
<1>11. /\ "radioBack" \notin Starts \cup Ends \cup Channels \cup Silent \cup Paired
       /\ "radioBack" \notin {"unlink", "unlinkBusy", "drainControl", "main", "closed", "wait",
                              "settle", "firstIn", "launched"}
       /\ "radioBack" \in Fixed
  BY ChannelNames DEF Starts, Ends, Silent, Closing, Paired, Fixed
<1>12. Typed(u) /\ Counted(u) /\ Kept(u) /\ Shown(u) /\ Awake(u) /\ Begun(u)
  <2>1. Typed(u) /\ Counted(u)
    BY <1>1, <1>6, <1>9, <1>11 DEF Sound, Typed, Counted, Same, Ends
  <2>2. Kept(u) /\ Shown(u) /\ Awake(u)
    BY <1>1, <1>3, <1>6, <1>8, <1>9, <1>11 DEF Sound, Kept, Shown, Awake, Same
  <2>3. Begun(u)
    BY <1>1, <1>6, <1>9, <1>11 DEF Sound, Begun, Same
  <2>4. QED
    BY <2>1, <2>2, <2>3
<1>13. Unplugged(u) /\ Dark(u)
  BY <1>1, <1>6, <1>9, <1>10, <1>11 DEF Sound, Unplugged, Dark, Leaves, Same
<1>14. Calm(u)
  BY <1>1, <1>6, <1>9, <1>10, <1>11 DEF Sound, Calm, Same
<1>15. QED
  BY <1>9, <1>12, <1>13, <1>14 DEF Sound, Same

LEMMA ErrorCommands ==
    \A name \in {"InitiateDisconnect", "ConnectionError", "RadioError", "InitiateConnect",
                 "Unplug", "ExitApp"} :
        Cmd(name) \in Commands /\ Cmd(name) \notin Triggers /\ Cmd(name) \notin {Ok}
  BY DEF Commands, Names, Triggers, Ok, Cmd

LEMMA BTHandleEventSound ==
    ASSUME NEW v, Sound(v), v.fault = "none", v.at \in QueueLoops \cup {"main"},
           NEW x \in Commands, Handled(x), NEW u \in BTHandleEvent(v, x)
    PROVE  Sound(u)
<1> DEFINE s == [v EXCEPT !.up = FALSE]
<1>1. Sound(s)
  BY DownSound
<1> HIDE DEF s
<1>2. \A name \in {"InitiateDisconnect", "ConnectionError", "RadioError"} : Sound(Enqueue(s, Cmd(name)))
  BY <1>1, EnqueueSound, ErrorCommands
<1>3. CASE x[1] = "ACLDisconnect"
  <2>1. u = LinkClosed(v, x[2])
    BY <1>3 DEF BTHandleEvent
  <2>2. \E name \in {"InitiateDisconnect", "ConnectionError", "RadioError"} : u = Enqueue(s, Cmd(name))
    BY <2>1 DEF LinkClosed, s
  <2>3. QED
    BY <1>2, <2>2
<1>4. CASE x = <<"Send", "error">>
  <2>1. u \in SendFailed(v)
    BY <1>4 DEF BTHandleEvent
  <2>2. u = v \/ \E name \in {"InitiateDisconnect", "ConnectionError", "RadioError"} :
                    u = Enqueue(s, Cmd(name))
    BY <2>1 DEF SendFailed, s
  <2>3. QED
    BY <1>2, <2>2
<1>5. CASE x = <<"Radio", "initialized">>
  <2>1. u = Enqueue(v, Cmd("RadioError"))
    BY <1>5 DEF BTHandleEvent
  <2>2. QED
    BY <2>1, EnqueueSound, ErrorCommands
<1>6. CASE x = <<"Radio", "fatal">>
  <2>1. u \in Go([ProgressStart(v) EXCEPT !.back = v.at], "radioBack")
    BY <1>6 DEF BTHandleEvent
  <2>2. QED
    BY <2>1, RadioBackSound
<1>7. QED
  BY <1>3, <1>4, <1>5, <1>6, HandledFacts

(* The command that ends the loop of Connect (c) with no error.            *)
LEMMA MatchFacts ==
    ASSUME NEW x \in Commands, NEW at, Matches(at, x)
    PROVE  /\ x # Cmd("ExitApp")
           /\ at \in Channels /\ StatusOf(x) = "ok" => x = Ok
<1>1. CASE x \in Results
  BY <1>1, LoopNames, ChannelNames
     DEF Results, Ok, Matches, StatusOf, Cmd, ResultOf, QueueLoops
<1>2. CASE \E name \in Names : x = Cmd(name)
  <2>1. x = Cmd("Unplug") /\ at = "prepare"
    <3>1. PICK name \in Names : x = <<name, "command">>
      BY <1>2 DEF Cmd
    <3>2. x[1] = name
      BY <3>1
    <3>3. name \notin {"Radio", "Accessible", "ACLConnect", "Authenticate", "Encrypt", "Connect",
                       "None", "ACLDisconnect", "Send"}
      BY DEF Names
    <3>4. at \in ResultLoops => ResultOf[at] \in {"Radio", "Accessible", "ACLConnect",
              "Authenticate", "Encrypt", "Connect", "None", "ACLDisconnect"}
      BY DEF ResultLoops, ResultOf
    <3>5. QED
      BY <3>1, <3>2, <3>3, <3>4 DEF Matches
  <2>2. QED
    BY <2>1, ChannelNames DEF Cmd
<1>3. QED
  BY <1>1, <1>2 DEF Commands

LEMMA IterationSound ==
    ASSUME NEW v, Sound(v), v.fault = "none", v.at \notin Idle, v.cmds # <<>>,
           NEW u \in Iteration(Taken(v), Head(v.cmds))
    PROVE  Sound(u)
<1> DEFINE t == Taken(v)
           x == Head(v.cmds)
<1>1. /\ t.at = v.at /\ t.fault = v.fault /\ t.listening = v.listening /\ t.raced = v.raced
      /\ t.socket = v.socket /\ x \in Commands
      /\ \A C : AtMostOne(v.cmds, C) => AtMostOne(t.cmds, C) /\ (x \in C => ~ Has(t.cmds, C))
      /\ \A C : Has(v.cmds, C) <=> x \in C \/ Has(t.cmds, C)
  BY TakenFacts DEF Sound
<1>2. /\ v.at # "main" => Working(t)
      /\ v.at # "main" /\ x # Cmd("ExitApp") => Sound(t)
      /\ x \notin Late => Sound(t)
  BY TakenWorks
<1>3. v.at = "main" /\ u \in AppEventLoop(t, x) => Sound(u)
  BY AppEventLoopSound
<1> HIDE DEF t, x
<1>4. u \in Iteration(t, x)
  BY DEF t, x
<1>5. CASE v.at = "main"
  <2>1. u \in IF Handled(x) THEN BTHandleEvent(t, x) ELSE AppEventLoop(t, x)
    BY <1>1, <1>4, <1>5 DEF Iteration, QueueLoops
  <2>2. CASE Handled(x)
    <3>1. Sound(t)
      BY <1>1, <1>2, <2>2, HandledFacts
    <3>2. QED
      BY <1>1, <1>5, <2>1, <2>2, <3>1, BTHandleEventSound
  <2>3. QED
    BY <1>3, <1>5, <2>1, <2>2
<1>6. CASE v.at # "main" /\ Matches(v.at, x)
  <2>1. x # Cmd("ExitApp") /\ (v.at \in Channels /\ StatusOf(x) = "ok" => x = Ok)
    BY <1>1, <1>6, MatchFacts
  <2>2. u \in Ended(t, StatusOf(x))
    BY <1>1, <1>4, <1>6, <2>1 DEF Iteration
  <2>3. Sound(t)
    BY <1>2, <1>6, <2>1
  <2>4. ASSUME v.at \in Channels, StatusOf(x) = "ok" PROVE Answered(t)
    <3>1. x = Ok /\ Has(v.cmds, {Ok}) /\ Has(v.cmds, Triggers)
      BY <1>1, <2>1, <2>4 DEF Triggers
    <3>2. v.at \notin Starts \cup Ends
      BY <2>4, ChannelNames DEF Starts, Ends
    <3>3. v.listening
      BY <3>1, <3>2 DEF Sound, Dark, Leaves
    <3>4. ~ v.raced => v.socket[v.at] = "open" /\ AtMostOne(v.cmds, {Ok})
      BY <2>4, <3>1 DEF Sound, Calm
    <3>5. QED
      BY <1>1, <3>1, <3>3, <3>4 DEF Answered
  <2>5. QED
    BY <1>1, <1>6, <2>2, <2>3, <2>4, EndedFromSound
<1>7. CASE v.at # "main" /\ ~ Matches(v.at, x) /\ x = Cmd("ExitApp")
  <2>1. ~ Handled(x)
    BY <1>1, <1>7, HandledFacts
  <2>2. u \in Exit(t)
    BY <1>1, <1>4, <1>7, <2>1 DEF Iteration
  <2>3. QED
    BY <1>1, <1>2, <1>7, <2>2, ExitSound
<1>8. CASE v.at \in QueueLoops /\ Handled(x) /\ ~ Matches(v.at, x)
  <2>1. v.at # "main" /\ x # Cmd("ExitApp")
    BY <1>1, <1>8, HandledFacts DEF QueueLoops
  <2>2. u \in BTHandleEvent(t, x)
    BY <1>1, <1>4, <1>8, <2>1 DEF Iteration
  <2>3. QED
    BY <1>1, <1>2, <1>8, <2>1, <2>2, BTHandleEventSound
<1>9. CASE /\ v.at # "main" /\ ~ Matches(v.at, x) /\ x # Cmd("ExitApp")
           /\ ~ (v.at \in QueueLoops /\ Handled(x))
  <2>1. u \in Rest(t)
    BY <1>1, <1>4, <1>9 DEF Iteration
  <2>2. QED
    BY <1>1, <1>2, <1>9, <2>1, RestSound
<1>10. QED
  BY <1>5, <1>6, <1>7, <1>8, <1>9

-----------------------------------------------------------------------------
(* The steps of the program.                                               *)
LEMMA Iterated ==
    ASSUME NEW worlds, \A u \in worlds : Sound(u), Iterate(worlds)
    PROVE  IInv'
<1>1. Sound(w') /\ asleep' = (w'.cmds = <<>>)
  BY DEF Iterate
<1>2. \A C : ~ Has(<<>>, C)
  BY EmptySeq DEF Has
<1>3. Sleeping(w', asleep') /\ asleep' \in BOOLEAN
  BY <1>1, <1>2 DEF Sleeping
<1>4. QED
  BY <1>1, <1>3 DEF IInv, Sound, Typed, Counted, Kept, Unplugged, Shown, Awake, Begun, Dark,
                    Calm, Leaves, At, Sleeping

LEMMA AppInitKeeps == ASSUME IInv, AppInit PROVE IInv'
<1> DEFINE t == ProgressStart(w)
<1>1. w.at = "launched" /\ Sound(w) /\ Iterate(BTRadioInit(t))
  BY DEF IInv, AppInit
<1>2. "launched" \in Starts /\ "launched" \notin Ends \cup Fixed \cup {"main", "restore", "radioBack"}
  BY DEF Starts, Ends, Fixed
<1>3. w \in Worlds /\ w.autooff # "closed" /\ w.fault = "none"
  BY <1>1 DEF Sound, Typed, Awake, Begun
<1>4. t \in Worlds /\ Still(t, w) /\ t.progressing /\ t.autooff = "disabled"
  BY <1>3, StartFacts
<1> HIDE DEF t
<1>5. Moving(w)
  BY <1>1, <1>2, <1>3 DEF Sound, Kept, Begun, Calm, Moving
<1>6. ~ w.up /\ ~ w.listening /\ w.socket = NoSockets /\ ~ Has(w.cmds, Triggers)
      /\ (w.starting => w.state = "Disconnected")
  BY <1>1, <1>2 DEF Sound, Counted, Begun
<1>7. Radio(t)
  BY <1>4, <1>5, <1>6 DEF Radio, Moving, Typed, Still, Same
<1>8. \A u \in BTRadioInit(t) : Sound(u)
  BY <1>7, BTRadioInitSound
<1>9. QED
  BY <1>1, <1>8, Iterated

LEMMA TakeKeeps == ASSUME IInv, Take PROVE IInv'
<1>1. Sound(w) /\ w.fault = "none" /\ w.at \notin Idle /\ w.cmds # <<>>
  BY DEF IInv, Sleeping, Take, Running
<1>2. Iterate(Iteration(Taken(w), Head(w.cmds)))
  BY DEF Take, Taken
<1>3. \A u \in Iteration(Taken(w), Head(w.cmds)) : Sound(u)
  BY <1>1, IterationSound
<1>4. QED
  BY <1>2, <1>3, Iterated

LEMMA WakeKeeps == ASSUME IInv, Wake PROVE IInv'
<1>1. Sound(w) /\ w.fault = "none" /\ w.at \notin Idle /\ Iterate(Rest(w))
  BY DEF IInv, Wake, Running
<1>2. \A u \in Rest(w) : Sound(u)
  BY <1>1, RestSound
<1>3. QED
  BY <1>1, <1>2, Iterated

LEMMA LeavingSound ==
    ASSUME NEW v, Sound(v), v.at = "main"
    PROVE  Sound(Enqueue([v EXCEPT !.leaving = TRUE], Cmd("ExitApp")))
<1> DEFINE l == [v EXCEPT !.leaving = TRUE]
           s == Enqueue(l, Cmd("ExitApp"))
<1>1. v \in Worlds
  BY DEF Sound, Typed
<1>2. l \in Worlds /\ l.leaving
  BY <1>1 DEF Worlds
<1>3. /\ l.at = v.at /\ l.back = v.back /\ l.socket = v.socket /\ l.asked = v.asked
      /\ l.listening = v.listening /\ l.state = v.state /\ l.starting = v.starting
  BY <1>1 DEF Worlds
<1>4. /\ l.progressing = v.progressing /\ l.autooff = v.autooff /\ l.raced = v.raced
      /\ l.fault = v.fault /\ l.up = v.up /\ l.cmds = v.cmds /\ l.exitapp = v.exitapp
  BY <1>1 DEF Worlds
<1> HIDE DEF l
<1>5. Queued(l, v)
  BY <1>2, <1>3, <1>4 DEF Queued, Typed
<1>6. Working(l)
  BY <1>5, QueuedWorks, SoundWorks
<1>7. /\ Queued(s, l) /\ s.exitapp = l.exitapp /\ s.leaving = l.leaving
      /\ Has(s.cmds, {Cmd("ExitApp")})
  BY <1>6, EnqueueQueued, ExitCommand DEF Working
<1> HIDE DEF s
<1>8. Working(s)
  BY <1>6, <1>7, QueuedWorks
<1>9. Kept(s)
  BY <1>3, <1>4, <1>7 DEF Sound, Kept, Queued
<1>10. Sound(s)
  BY <1>8, <1>9, SoundWorks
<1>11. QED
  BY <1>10 DEF s, l

LEMMA AppStopKeeps == ASSUME IInv, AppStop PROVE IInv'
<1> DEFINE worlds == CASE w.at = "main" -> {Enqueue([w EXCEPT !.leaving = TRUE], Cmd("ExitApp"))}
                       [] Lost(w) -> Ended(w, "error")
                       [] w.at \in QueueLoops /\ ~ Lost(w) -> Ended(w, "ok") \cup Exit(w)
                       [] OTHER -> Exit(w)
<1>1. Sound(w) /\ Working(w) /\ w.fault = "none" /\ w.at \notin Idle /\ Iterate(worlds)
  BY SoundWorks DEF IInv, AppStop, Running
<1>2. ASSUME NEW u \in worlds PROVE Sound(u)
  <2>1. CASE w.at = "main"
    <3>1. u = Enqueue([w EXCEPT !.leaving = TRUE], Cmd("ExitApp"))
      BY <1>2, <2>1 DEF Lost, QueueLoops
    <3>2. QED
      BY <1>1, <2>1, <3>1, LeavingSound
  <2>2. CASE w.at # "main"
    <3>1. \/ u \in Ended(w, "error") \/ u \in Exit(w)
          \/ w.at \in QueueLoops /\ u \in Ended(w, "ok")
      BY <1>2, <2>2
    <3>2. CASE u \in Ended(w, "error")
      BY <1>1, <2>2, <3>2, EndedFromSound
    <3>3. CASE u \in Exit(w)
      BY <1>1, <2>2, <3>3, ExitSound
    <3>4. CASE w.at \in QueueLoops /\ u \in Ended(w, "ok")
      <4>1. w.at \notin Channels
        BY <3>4 DEF QueueLoops, Channels
      <4>2. QED
        BY <1>1, <2>2, <3>4, <4>1, EndedFromSound
    <3>5. QED
      BY <3>1, <3>2, <3>3, <3>4
  <2>3. QED
    BY <2>1, <2>2
<1> HIDE DEF worlds
<1>3. QED
  BY <1>1, <1>2, Iterated

(* A command that has the program wait for a host, which a listener allows.*)
LEMMA TriggerSound ==
    ASSUME NEW v, Sound(v), v.listening, ~ Has(v.cmds, Late), NEW x \in Commands, x # Ok
    PROVE  Sound(Enqueue(v, x))
<1> DEFINE s == Enqueue(v, x)
<1>1. Typed(v) /\ v.cmds \in Seq(Commands)
  BY DEF Sound, Typed, Worlds
<1>2. /\ Typed(s) /\ s.cmds = Append(v.cmds, x) /\ s.at = v.at /\ s.back = v.back
      /\ s.socket = v.socket /\ s.asked = v.asked /\ s.listening = v.listening /\ s.up = v.up
      /\ s.state = v.state /\ s.starting = v.starting /\ s.exitapp = v.exitapp
      /\ s.progressing = v.progressing /\ s.autooff = v.autooff /\ s.fault = v.fault
      /\ s.leaving = v.leaving /\ s.raced = v.raced
  BY <1>1, EnqueueFacts
<1> HIDE DEF s
<1>3. /\ \A C : Has(s.cmds, C) <=> Has(v.cmds, C) \/ x \in C
      /\ NoneAfter(v.cmds, Late, Triggers) => NoneAfter(s.cmds, Late, Triggers)
      /\ NoneAfter(v.cmds, Blockers, {Ok}) => NoneAfter(s.cmds, Blockers, {Ok})
      /\ AtMostOne(v.cmds, {Ok}) => AtMostOne(s.cmds, {Ok})
  BY <1>1, <1>2, AppendFacts
<1>4. Counted(s) /\ Kept(s) /\ Unplugged(s) /\ Shown(s) /\ Awake(s)
  BY <1>2, <1>3 DEF Sound, Counted, Kept, Unplugged, At, Shown, Awake
<1>5. Begun(s) /\ Dark(s)
  BY <1>2, <1>3 DEF Sound, Begun, Dark
<1>6. Calm(s)
  BY <1>2, <1>3 DEF Sound, Calm, At
<1>7. Sound(s)
  BY <1>2, <1>3, <1>4, <1>5, <1>6 DEF Sound
<1>8. QED
  BY <1>7 DEF s

LEMMA TapKeeps ==
    ASSUME IInv, NEW name \in {"InitiateConnect", "WaitConnection", "InitiateDisconnect"}, Tap(name)
    PROVE  IInv'
<1>1. Sound(w) /\ w.at = "main" /\ w.cmds = <<>> /\ Iterate({Enqueue(w, Cmd(name))})
  BY DEF IInv, Tap
<1>2. \A C : ~ Has(w.cmds, C)
  BY <1>1, EmptySeq DEF Has
<1>3. "main" \notin Starts \cup Ends \cup Fixed
  BY DEF Starts, Ends, Fixed
<1>4. w.listening
  BY <1>1, <1>2, <1>3 DEF Sound, Kept, Dark, Leaves
<1>5. Cmd(name) \in Commands /\ Cmd(name) # Ok
  BY DEF Commands, Names, Cmd, Ok
<1>6. Sound(Enqueue(w, Cmd(name)))
  BY <1>1, <1>2, <1>4, <1>5, TriggerSound
<1>7. QED
  BY <1>1, <1>6, Iterated

LEMMA BTSendTimerKeeps == ASSUME IInv, BTSendTimer PROVE IInv'
<1>1. Sound(w) /\ Iterate({Enqueue(w, Cmd("RadioError"))})
  BY DEF IInv, BTSendTimer
<1>2. Sound(Enqueue(w, Cmd("RadioError")))
  BY <1>1, EnqueueSound, ErrorCommands
<1>3. QED
  BY <1>1, <1>2, Iterated

LEMMA AnimateTimerKeeps == ASSUME IInv, AnimateTimer PROVE IInv'
<1> DEFINE s == [w EXCEPT !.fault = "assert"]
<1>1. Sound(w) /\ Sleeping(w, asleep) /\ asleep \in BOOLEAN /\ w.at # "launched" /\ w.fault = "none"
  BY DEF IInv, AnimateTimer, Running, Idle
<1>2. w \in Worlds
  BY <1>1 DEF Sound, Typed
<1>3. s \in Worlds
  BY <1>2 DEF Worlds
<1>4. /\ s.at = w.at /\ s.back = w.back /\ s.socket = w.socket /\ s.asked = w.asked
      /\ s.listening = w.listening /\ s.up = w.up /\ s.state = w.state /\ s.starting = w.starting
  BY <1>2 DEF Worlds
<1>5. /\ s.exitapp = w.exitapp /\ s.progressing = w.progressing /\ s.autooff = w.autooff
      /\ s.cmds = w.cmds /\ s.leaving = w.leaving /\ s.raced = w.raced
  BY <1>2 DEF Worlds
<1> HIDE DEF s
<1>6. Counted(s) /\ Kept(s) /\ Unplugged(s) /\ Shown(s) /\ Awake(s) /\ Begun(s)
  BY <1>1, <1>4, <1>5 DEF Sound, Counted, Kept, Unplugged, At, Shown, Awake, Begun
<1>7. Dark(s) /\ Calm(s)
  BY <1>4, <1>5 , <1>1 DEF Sound, Dark, Leaves, Calm, At
<1>8. Sound(s) /\ Sleeping(s, asleep)
  BY <1>1, <1>3, <1>4, <1>5, <1>6, <1>7 DEF Sound, Typed, Sleeping
<1>9. w' = s /\ asleep' = asleep
  BY DEF AnimateTimer, s
<1>10. IInv' <=> Sound(s) /\ Sleeping(s, asleep) /\ asleep \in BOOLEAN
  BY <1>9 DEF IInv, Sound, Typed, Counted, Kept, Unplugged, Shown, Awake, Begun, Dark, Calm,
              Leaves, At, Sleeping
<1>11. QED
  BY <1>1, <1>8, <1>10

-----------------------------------------------------------------------------
(* The callbacks, while the program sleeps.                                *)
LEMMA CalledBack ==
    ASSUME IInv, Callback, NEW s, Sound(s), Sleeping(s, TRUE), w' = s
    PROVE  IInv'
<1>1. asleep' = TRUE
  BY DEF Callback, IInv
<1>2. IInv' <=> Sound(s) /\ Sleeping(s, TRUE)
  BY <1>1 DEF IInv, Sound, Typed, Counted, Kept, Unplugged, Shown, Awake, Begun, Dark, Calm,
              Leaves, At, Sleeping
<1>3. QED
  BY <1>2

LEMMA AsleepFacts ==
    ASSUME IInv, Callback
    PROVE  Sound(w) /\ Sleeping(w, TRUE) /\ w.fault = "none" /\ w.at \notin Idle
           /\ w \in Worlds
  BY DEF IInv, Callback, Running, Sound, Typed

(* What a result or a command that comes from a callback leaves alone.     *)
LEMMA Reported ==
    ASSUME NEW v, Sound(v), Sleeping(v, TRUE), NEW x \in Commands, x \notin Triggers \cup Late,
           x \notin Blockers \/ v.at = "main" \/ v.raced
    PROVE  Sound(Enqueue(v, x)) /\ Sleeping(Enqueue(v, x), TRUE)
<1> DEFINE s == Enqueue(v, x)
<1>1. Sound(s)
  BY EnqueueSound
<1>2. /\ Queued(s, v)
      /\ \A C : Has(s.cmds, C) <=> Has(v.cmds, C) \/ x \in C
  BY EnqueueQueued DEF Sound
<1> HIDE DEF s
<1>3. Sleeping(s, TRUE)
  BY <1>2 DEF Sleeping, Queued
<1>4. QED
  BY <1>1, <1>3 DEF s

(* Nor does it matter what becomes of the link.                            *)
Quiet(s, v) ==
    /\ s \in Worlds /\ s.at = v.at /\ s.back = v.back /\ s.socket = v.socket
    /\ s.listening = v.listening /\ s.up = v.up /\ s.state = v.state /\ s.starting = v.starting
    /\ s.exitapp = v.exitapp /\ s.progressing = v.progressing /\ s.autooff = v.autooff
    /\ s.fault = v.fault /\ s.cmds = v.cmds /\ s.leaving = v.leaving /\ s.raced = v.raced
    /\ ~ s.listening => s.asked = {}

LEMMA QuietSound ==
    ASSUME NEW v, Sound(v), Sleeping(v, TRUE), NEW s, Quiet(s, v)
    PROVE  Sound(s) /\ Sleeping(s, TRUE)
<1>1. Counted(s) /\ Kept(s) /\ Unplugged(s) /\ Shown(s) /\ Awake(s) /\ Begun(s)
  BY DEF Quiet, Sound, Counted, Kept, Unplugged, At, Shown, Awake, Begun
<1>2. Dark(s) /\ Calm(s)
  BY DEF Quiet, Sound, Dark, Leaves, Calm, At
<1>3. QED
  BY <1>1, <1>2 DEF Quiet, Sound, Typed, Sleeping

LEMMA LinkQuiet ==
    ASSUME NEW v, Sound(v), NEW acl \in {"down", "connecting", "up", "dying"},
           NEW owed \in {"nothing", "Authenticate", "Encrypt"}
    PROVE  /\ Quiet([v EXCEPT !.acl = acl], v)
           /\ Quiet([v EXCEPT !.owed = owed], v)
<1>1. v \in Worlds /\ (~ v.listening => v.asked = {})
  BY DEF Sound, Typed, Begun
<1> DEFINE a == [v EXCEPT !.acl = acl]
           o == [v EXCEPT !.owed = owed]
<1>2. a \in Worlds /\ o \in Worlds
  BY <1>1 DEF Worlds
<1>3. /\ a.at = v.at /\ a.back = v.back /\ a.socket = v.socket /\ a.asked = v.asked
      /\ a.listening = v.listening /\ a.up = v.up /\ a.state = v.state /\ a.starting = v.starting
  BY <1>1 DEF Worlds
<1>4. /\ a.exitapp = v.exitapp /\ a.progressing = v.progressing /\ a.autooff = v.autooff
      /\ a.fault = v.fault /\ a.cmds = v.cmds /\ a.leaving = v.leaving /\ a.raced = v.raced
  BY <1>1 DEF Worlds
<1>5. /\ o.at = v.at /\ o.back = v.back /\ o.socket = v.socket /\ o.asked = v.asked
      /\ o.listening = v.listening /\ o.up = v.up /\ o.state = v.state /\ o.starting = v.starting
  BY <1>1 DEF Worlds
<1>6. /\ o.exitapp = v.exitapp /\ o.progressing = v.progressing /\ o.autooff = v.autooff
      /\ o.fault = v.fault /\ o.cmds = v.cmds /\ o.leaving = v.leaving /\ o.raced = v.raced
  BY <1>1 DEF Worlds
<1> HIDE DEF a, o
<1>7. Quiet(a, v) /\ Quiet(o, v)
  BY <1>1, <1>2, <1>3, <1>4, <1>5, <1>6 DEF Quiet
<1>8. QED
  BY <1>7 DEF a, o

LEMMA ResultCommands ==
    \A x \in Results : x # Ok => x \in Commands /\ x \notin Triggers \cup Late \cup Blockers
  BY DEF Results, Ok, Commands, Triggers, Late, Blockers, Cmd

LEMMA RadioStateKeeps ==
    ASSUME IInv, NEW status \in {"initialized", "fatal"}, RadioState(status)
    PROVE  IInv'
<1>1. Callback /\ w' = Enqueue(w, <<"Radio", status>>)
  BY DEF RadioState, FirstCallback, Report
<1>2. <<"Radio", status>> \in Results /\ <<"Radio", status>> # Ok
  BY DEF Results, Ok
<1>3. QED
  BY <1>1, <1>2, ResultCommands, AsleepFacts, Reported, CalledBack

LEMMA AccessibilityChangeKeeps == ASSUME IInv, AccessibilityChange PROVE IInv'
<1>1. Callback /\ w' = Enqueue(w, <<"Accessible", "ok">>)
  BY DEF AccessibilityChange, FirstCallback, Report
<1>2. <<"Accessible", "ok">> \in Results /\ <<"Accessible", "ok">> # Ok
  BY DEF Results, Ok
<1>3. QED
  BY <1>1, <1>2, ResultCommands, AsleepFacts, Reported, CalledBack

LEMMA ACLConnectOutboundKeeps ==
    ASSUME IInv, NEW status \in {"ok", "error"}, ACLConnectOutbound(status)
    PROVE  IInv'
<1> DEFINE s == [w EXCEPT !.acl = IF status = "ok" THEN "up" ELSE "down"]
<1>1. Callback /\ (w' = s \/ w' = Enqueue(s, <<"ACLConnect", status>>))
  BY DEF ACLConnectOutbound
<1>2. <<"ACLConnect", status>> \in Results /\ <<"ACLConnect", status>> # Ok
  BY DEF Results, Ok
<1>3. Quiet(s, w)
  BY <1>1, AsleepFacts, LinkQuiet
<1> HIDE DEF s
<1>4. Sound(s) /\ Sleeping(s, TRUE)
  BY <1>1, <1>3, AsleepFacts, QuietSound
<1>5. CASE w' = s
  BY <1>1, <1>4, <1>5, CalledBack
<1>6. CASE w' = Enqueue(s, <<"ACLConnect", status>>)
  BY <1>1, <1>2, <1>4, <1>6, ResultCommands, Reported, CalledBack
<1>7. QED
  BY <1>1, <1>5, <1>6

LEMMA ACLDisconnectKeeps ==
    ASSUME IInv, NEW status \in {"user", "lost"}, ACLDisconnect(status)
    PROVE  IInv'
<1> DEFINE s == Enqueue(w, <<"ACLDisconnect", status>>)
<1>1. Callback /\ w' = [s EXCEPT !.acl = "down"]
  BY DEF ACLDisconnect, Report
<1>2. <<"ACLDisconnect", status>> \in Results /\ <<"ACLDisconnect", status>> # Ok
  BY DEF Results, Ok
<1>3. Sound(s) /\ Sleeping(s, TRUE)
  BY <1>1, <1>2, ResultCommands, AsleepFacts, Reported
<1> HIDE DEF s
<1>4. Quiet([s EXCEPT !.acl = "down"], s)
  BY <1>3, LinkQuiet
<1>5. QED
  BY <1>1, <1>3, <1>4, QuietSound, CalledBack

LEMMA AuthenticationCompleteKeeps ==
    ASSUME IInv, NEW status \in {"ok", "denied", "error"}, AuthenticationComplete(status)
    PROVE  IInv'
<1> DEFINE s == Enqueue(w, <<"Authenticate", status>>)
<1>1. Callback /\ w' = [s EXCEPT !.owed = "nothing"]
  BY DEF AuthenticationComplete, FirstCallback, Report
<1>2. <<"Authenticate", status>> \in Results /\ <<"Authenticate", status>> # Ok
  BY DEF Results, Ok
<1>3. Sound(s) /\ Sleeping(s, TRUE)
  BY <1>1, <1>2, ResultCommands, AsleepFacts, Reported
<1> HIDE DEF s
<1>4. Quiet([s EXCEPT !.owed = "nothing"], s)
  BY <1>3, LinkQuiet
<1>5. QED
  BY <1>1, <1>3, <1>4, QuietSound, CalledBack

LEMMA EncryptionChangeKeeps ==
    ASSUME IInv, NEW status \in {"ok", "error"}, EncryptionChange(status)
    PROVE  IInv'
<1> DEFINE s == Enqueue(w, <<"Encrypt", status>>)
<1>1. Callback /\ w' = [s EXCEPT !.owed = "nothing"]
  BY DEF EncryptionChange, FirstCallback, Report
<1>2. <<"Encrypt", status>> \in Results /\ <<"Encrypt", status>> # Ok
  BY DEF Results, Ok
<1>3. Sound(s) /\ Sleeping(s, TRUE)
  BY <1>1, <1>2, ResultCommands, AsleepFacts, Reported
<1> HIDE DEF s
<1>4. Quiet([s EXCEPT !.owed = "nothing"], s)
  BY <1>3, LinkQuiet
<1>5. QED
  BY <1>1, <1>3, <1>4, QuietSound, CalledBack

LEMMA SendCompleteKeeps == ASSUME IInv, NEW c \in Channels, SendComplete(c) PROVE IInv'
<1>1. Callback /\ w' = Enqueue(w, <<"Send", "error">>)
  BY DEF SendComplete, FirstCallback, Report
<1>2. <<"Send", "error">> \in Results /\ <<"Send", "error">> # Ok
  BY DEF Results, Ok
<1>3. QED
  BY <1>1, <1>2, ResultCommands, AsleepFacts, Reported, CalledBack

LEMMA UnplugKeeps == ASSUME IInv, Unplug PROVE IInv'
<1>1. Callback /\ w' = Enqueue(w, Cmd("Unplug"))
  BY DEF Unplug
<1>2. Cmd("Unplug") \in Commands /\ Cmd("Unplug") \notin Triggers \cup Late \cup Blockers
  BY DEF Commands, Names, Triggers, Late, Blockers, Ok, Cmd
<1>3. QED
  BY <1>1, <1>2, AsleepFacts, Reported, CalledBack

LEMMA ConnectRequestKeeps == ASSUME IInv, NEW c \in Channels, ConnectRequest(c) PROVE IInv'
<1> DEFINE a == [w EXCEPT !.asked = @ \cup {c}, !.acl = IF @ = "connecting" THEN @ ELSE "up"]
           s == StartAnimate(a)
<1>1. Callback /\ w.listening /\ w' = s
  BY DEF ConnectRequest, FirstCallback
<1>2. Sound(w) /\ Sleeping(w, TRUE) /\ w \in Worlds
  BY <1>1, AsleepFacts
<1>3. a \in Worlds
  BY <1>2 DEF Worlds
<1>4. s \in Worlds
  BY <1>3 DEF Worlds, StartAnimate
<1>5. /\ s.at = w.at /\ s.back = w.back /\ s.socket = w.socket
      /\ s.listening = w.listening /\ s.up = w.up /\ s.state = w.state /\ s.starting = w.starting
  BY <1>2 DEF Worlds, StartAnimate
<1>6. /\ s.exitapp = w.exitapp /\ s.progressing = w.progressing /\ s.autooff = w.autooff
      /\ s.fault = w.fault /\ s.cmds = w.cmds /\ s.leaving = w.leaving /\ s.raced = w.raced
  BY <1>2 DEF Worlds, StartAnimate
<1> HIDE DEF s, a
<1>7. Quiet(s, w)
  BY <1>1, <1>4, <1>5, <1>6 DEF Quiet
<1>8. QED
  BY <1>1, <1>2, <1>7, QuietSound, CalledBack

(* A change of one socket that BTSocketCallback announces with a command.  *)
Socketed(u, v, c, s, up, raced, asked) ==
    /\ u \in Worlds
    /\ \A d \in Channels : u.socket[d] = IF d = c THEN s ELSE v.socket[d]
    /\ u.up = up /\ u.raced = raced /\ u.asked = asked
    /\ u.at = v.at /\ u.back = v.back /\ u.listening = v.listening /\ u.state = v.state
    /\ u.starting = v.starting /\ u.exitapp = v.exitapp /\ u.progressing = v.progressing
    /\ u.autooff = v.autooff /\ u.fault = v.fault /\ u.cmds = v.cmds
    /\ u.leaving = v.leaving

Moved(v, c, s, up, raced, asked) ==
    [v EXCEPT !.socket[c] = s, !.up = up, !.raced = raced, !.asked = asked]

LEMMA SocketFacts ==
    ASSUME NEW v \in Worlds, NEW c \in Channels, NEW s \in {"none", "dead", "open"},
           NEW up \in BOOLEAN, NEW raced \in BOOLEAN, NEW asked \in SUBSET Channels
    PROVE  Socketed(Moved(v, c, s, up, raced, asked), v, c, s, up, raced, asked)
<1> DEFINE u == [v EXCEPT !.socket[c] = s, !.up = up, !.raced = raced, !.asked = asked]
<1>1. v.socket \in [Channels -> {"none", "pending", "dead", "open"}]
  BY DEF Worlds
<1>2. [v.socket EXCEPT ![c] = s] \in [Channels -> {"none", "pending", "dead", "open"}]
  BY <1>1
<1>3. u.socket = [v.socket EXCEPT ![c] = s] /\ u.up = up /\ u.raced = raced /\ u.asked = asked
  BY DEF Worlds
<1>4. u \in Worlds
  BY <1>2 DEF Worlds
<1>5. \A d \in Channels : u.socket[d] = IF d = c THEN s ELSE v.socket[d]
  BY <1>1, <1>3
<1>6. /\ u.at = v.at /\ u.back = v.back /\ u.listening = v.listening /\ u.state = v.state
      /\ u.starting = v.starting /\ u.exitapp = v.exitapp
  BY DEF Worlds
<1>7. /\ u.progressing = v.progressing /\ u.autooff = v.autooff /\ u.fault = v.fault
      /\ u.cmds = v.cmds /\ u.leaving = v.leaving
  BY DEF Worlds
<1> HIDE DEF u
<1>8. Socketed(u, v, c, s, up, raced, asked)
  BY <1>3, <1>4, <1>5, <1>6, <1>7 DEF Socketed
<1>9. QED
  BY <1>8 DEF u, Moved

(* A host that asked is connected now.                                     *)
LEMMA ArrivedSound ==
    ASSUME NEW v, Sound(v), Sleeping(v, TRUE), NEW c \in Channels, v.listening,
           v.socket[c] = "none", ~ Disconnecting(v),
           NEW expected \in BOOLEAN,
           expected => v.at = "wait" \/ (v.at = "main" /\ v.cmds = <<>>),
           NEW asked \in SUBSET Channels,
           NEW s, Socketed(s, v, c, "open", v.up, v.raced \/ ~ expected, asked)
    PROVE  Sound(Enqueue(s, Ok)) /\ Sleeping(Enqueue(s, Ok), TRUE)
<1> DEFINE u == Enqueue(s, Ok)
<1>1. /\ s \in Worlds
      /\ \A d \in Channels : s.socket[d] = IF d = c THEN "open" ELSE v.socket[d]
      /\ s.up = v.up /\ s.raced = (v.raced \/ ~ expected)
      /\ s.at = v.at /\ s.back = v.back /\ s.listening = v.listening /\ s.state = v.state
      /\ s.starting = v.starting /\ s.exitapp = v.exitapp /\ s.progressing = v.progressing
      /\ s.autooff = v.autooff /\ s.fault = v.fault /\ s.cmds = v.cmds
      /\ s.leaving = v.leaving
  BY DEF Socketed
<1>2. Typed(s) /\ s.cmds \in Seq(Commands) /\ Ok \in Commands
  BY <1>1 DEF Typed, Worlds, Commands, Results
<1>3. /\ Typed(u) /\ u.cmds = Append(s.cmds, Ok) /\ u.at = s.at /\ u.back = s.back
      /\ u.socket = s.socket /\ u.listening = s.listening /\ u.up = s.up
      /\ u.state = s.state /\ u.starting = s.starting /\ u.exitapp = s.exitapp
      /\ u.progressing = s.progressing /\ u.autooff = s.autooff /\ u.fault = s.fault
      /\ u.leaving = s.leaving /\ u.raced = s.raced
  BY <1>2, EnqueueFacts
<1> HIDE DEF u
<1>4. /\ \A C : Has(u.cmds, C) <=> Has(v.cmds, C) \/ Ok \in C
      /\ ~ Has(v.cmds, Late) /\ NoneAfter(v.cmds, Late, Triggers)
            => NoneAfter(u.cmds, Late, Triggers)
      /\ ~ Has(v.cmds, Blockers) /\ NoneAfter(v.cmds, Blockers, {Ok})
            => NoneAfter(u.cmds, Blockers, {Ok})
  BY <1>1, <1>2, <1>3, AppendFacts
<1>5. Ok \notin Late \cup Blockers /\ Ok \notin {Cmd("ExitApp")}
  BY DEF Ok, Late, Blockers, Cmd
<1>6. v.at \notin Starts /\ v.at \notin {"unlink", "unlinkBusy"} /\ ~ At(v, {"drainControl"})
  BY DEF Sound, Begun, Disconnecting, Closing, At
<1>7. Counted(u) /\ Kept(u) /\ Shown(u) /\ Awake(u)
  BY <1>1, <1>3, <1>4, <1>5 DEF Sound, Counted, Kept, Shown, Awake
<1>8. Unplugged(u) /\ Begun(u) /\ Dark(u)
  BY <1>1, <1>3, <1>6 DEF Sound, Unplugged, At, Begun, Dark, Starts
<1>9. Calm(u)
  <2> SUFFICES ASSUME ~ v.raced, expected PROVE Calm(u)
    BY <1>1, <1>3 DEF Calm
  <2>1. v.at \in {"wait", "main"} /\ (v.at = "main" => v.cmds = <<>>)
    OBVIOUS
  <2>2. v.at \notin Channels \cup Silent \cup Paired \cup {"radioBack", "restore"}
    BY <2>1, ChannelNames DEF Silent, Closing, Paired
  <2>3. ~ Has(v.cmds, Blockers)
    BY <2>1, EmptySeq DEF Sleeping, Has
  <2>4. v.up => FALSE
    BY <2>2 DEF Sound, Calm, Both
  <2>5. QED
    BY <1>1, <1>3, <1>4, <2>2, <2>3, <2>4 DEF Sound, Calm, At
<1>10. Sound(u)
  BY <1>3, <1>4, <1>7, <1>8, <1>9 DEF Sound, Sleeping
<1>11. Sleeping(u, TRUE)
  BY <1>1, <1>3, <1>4, <1>5 DEF Sleeping
<1>12. QED
  BY <1>10, <1>11 DEF u

LEMMA ConnectedInboundKeeps ==
    ASSUME IInv, NEW c \in Channels, NEW status \in {"ok", "error"}, ConnectedInbound(c, status)
    PROVE  IInv'
<1> DEFINE s == [w EXCEPT !.asked = @ \ {c}]
           expected == w.at = "wait" \/ (w.at = "main" /\ w.state = "Disconnected" /\ w.cmds = <<>>)
           arrived == [s EXCEPT !.socket[c] = "open", !.raced = @ \/ ~ expected]
<1>1. /\ Callback /\ c \in w.asked
      /\ w' = CASE status # "ok" -> Enqueue(s, <<"Connect", status>>)
                [] status = "ok" /\ w.listening /\ w.socket[c] = "none" /\ ~ Disconnecting(w) ->
                      Enqueue(arrived, Ok)
                [] OTHER -> s
  BY DEF ConnectedInbound
<1>2. Sound(w) /\ Sleeping(w, TRUE) /\ w \in Worlds
  BY <1>1, AsleepFacts
<1>3. s \in Worlds
  BY <1>2 DEF Worlds
<1>4. /\ s.at = w.at /\ s.back = w.back /\ s.socket = w.socket
      /\ s.listening = w.listening /\ s.up = w.up /\ s.state = w.state /\ s.starting = w.starting
  BY <1>2 DEF Worlds
<1>5. /\ s.exitapp = w.exitapp /\ s.progressing = w.progressing /\ s.autooff = w.autooff
      /\ s.fault = w.fault /\ s.cmds = w.cmds /\ s.leaving = w.leaving /\ s.raced = w.raced
  BY <1>2 DEF Worlds
<1>6. ~ s.listening => s.asked = {}
  BY <1>2 DEF Worlds, Sound, Begun
<1>7. w.asked \ {c} \in SUBSET Channels /\ w.up \in BOOLEAN /\ w.raced \in BOOLEAN
  BY <1>2 DEF Worlds
<1>8. arrived = Moved(w, c, "open", w.up, w.raced \/ ~ expected, w.asked \ {c})
  BY <1>2 DEF Worlds, Moved
<1> HIDE DEF s, arrived
<1>9. Quiet(s, w)
  BY <1>3, <1>4, <1>5, <1>6 DEF Quiet
<1>10. Sound(s) /\ Sleeping(s, TRUE)
  BY <1>2, <1>9, QuietSound
<1>11. CASE status # "ok"
  <2>1. <<"Connect", status>> \in Results /\ <<"Connect", status>> # Ok
    BY <1>11 DEF Results, Ok
  <2>2. w' = Enqueue(s, <<"Connect", status>>)
    BY <1>1, <1>11
  <2>3. QED
    BY <1>1, <1>10, <2>1, <2>2, ResultCommands, Reported, CalledBack
<1>12. CASE status = "ok" /\ w.listening /\ w.socket[c] = "none" /\ ~ Disconnecting(w)
  <2>1. w' = Enqueue(arrived, Ok)
    BY <1>1, <1>12
  <2>2. expected \in BOOLEAN /\ (expected => w.at = "wait" \/ (w.at = "main" /\ w.cmds = <<>>))
    OBVIOUS
  <2> HIDE DEF expected
  <2>3. (w.raced \/ ~ expected) \in BOOLEAN /\ "open" \in {"none", "dead", "open"}
    BY <1>7, <2>2
  <2>4. Socketed(arrived, w, c, "open", w.up, w.raced \/ ~ expected, w.asked \ {c})
    BY <1>2, <1>7, <1>8, <2>3, SocketFacts
  <2>5. Sound(Enqueue(arrived, Ok)) /\ Sleeping(Enqueue(arrived, Ok), TRUE)
    BY <1>2, <1>7, <1>12, <2>2, <2>4, ArrivedSound
  <2>6. QED
    BY <1>1, <2>1, <2>5, CalledBack
<1>13. CASE status = "ok" /\ ~ (w.listening /\ w.socket[c] = "none" /\ ~ Disconnecting(w))
  <2>1. w' = s
    BY <1>1, <1>13
  <2>2. QED
    BY <1>1, <1>10, <2>1, CalledBack
<1>14. QED
  BY <1>11, <1>12, <1>13

(* The host took the channel, or refused it.                               *)
LEMMA AnsweredSound ==
    ASSUME NEW v, Sound(v), Sleeping(v, TRUE), NEW c \in Channels, v.socket[c] = "pending",
           NEW x \in {Ok, <<"Connect", "error">>},
           NEW new, x = Ok => new = "open", x # Ok => new = "dead",
           NEW u, Socketed(u, Enqueue(v, x), c, new, v.up, v.raced, v.asked)
    PROVE  Sound(u) /\ Sleeping(u, TRUE)
<1> DEFINE s == Enqueue(v, x)
<1>1. x \in Commands /\ x \notin Late \cup Blockers /\ x \notin {Cmd("ExitApp")}
  BY DEF Commands, Results, Late, Blockers, Cmd, Ok
<1>2. Typed(v) /\ v.cmds \in Seq(Commands)
  BY DEF Sound, Typed, Worlds
<1>3. /\ s \in Worlds /\ s.cmds = Append(v.cmds, x) /\ s.at = v.at /\ s.back = v.back
      /\ s.socket = v.socket /\ s.asked = v.asked /\ s.listening = v.listening /\ s.up = v.up
      /\ s.state = v.state /\ s.starting = v.starting /\ s.exitapp = v.exitapp
      /\ s.progressing = v.progressing /\ s.autooff = v.autooff /\ s.fault = v.fault
      /\ s.leaving = v.leaving /\ s.raced = v.raced
  BY <1>1, <1>2, EnqueueFacts DEF Typed
<1>4. Socketed(u, s, c, new, v.up, v.raced, v.asked)
  OBVIOUS
<1> HIDE DEF s
<1>5. /\ u \in Worlds
      /\ \A d \in Channels : u.socket[d] = IF d = c THEN new ELSE s.socket[d]
      /\ u.up = s.up /\ u.raced = s.raced /\ u.asked = s.asked
      /\ u.at = s.at /\ u.back = s.back /\ u.listening = s.listening /\ u.state = s.state
      /\ u.starting = s.starting /\ u.exitapp = s.exitapp /\ u.progressing = s.progressing
      /\ u.autooff = s.autooff /\ u.fault = s.fault /\ u.cmds = s.cmds
      /\ u.leaving = s.leaving
  BY <1>3, <1>4 DEF Socketed
<1>6. /\ \A C : Has(u.cmds, C) <=> Has(v.cmds, C) \/ x \in C
      /\ ~ Has(v.cmds, Late) /\ NoneAfter(v.cmds, Late, Triggers)
            => NoneAfter(u.cmds, Late, Triggers)
      /\ ~ Has(v.cmds, Blockers) /\ NoneAfter(v.cmds, Blockers, {Ok})
            => NoneAfter(u.cmds, Blockers, {Ok})
      /\ AtMostOne(v.cmds, {Ok}) /\ (x # Ok \/ ~ Has(v.cmds, {Ok})) => AtMostOne(u.cmds, {Ok})
  BY <1>1, <1>2, <1>3, <1>5, AppendFacts
<1>7. v.at \notin Starts \cup {"unlink", "unlinkBusy"}
  BY DEF Sound, Begun, Unplugged, NoSockets
<1>8. Counted(u) /\ Kept(u) /\ Shown(u) /\ Awake(u)
  BY <1>1, <1>3, <1>5, <1>6 DEF Sound, Counted, Kept, Shown, Awake
<1>9. Unplugged(u)
  BY <1>3, <1>5, <1>7, ChannelNames DEF Sound, Unplugged, At
<1>10. Begun(u)
  BY <1>3, <1>5, <1>7 DEF Sound, Begun, Starts
<1>11. v.listening \/ v.at \in Ends
  <2> SUFFICES ASSUME ~ v.listening, v.at \notin Ends PROVE FALSE
    OBVIOUS
  <2>1. v.at = c /\ v.leaving
    BY <1>7 DEF Sound, Dark, Leaves
  <2>2. v.at \notin Fixed
    BY <2>1, ChannelNames DEF Fixed
  <2>3. Has(v.cmds, {Cmd("ExitApp")})
    BY <2>1, <2>2 DEF Sound, Kept
  <2>4. Has(v.cmds, Late)
    BY <2>3 DEF Has, Late
  <2>5. QED
    BY <2>4 DEF Sleeping
<1>12. Dark(u)
  BY <1>3, <1>5, <1>11 DEF Dark
<1>13. Calm(u)
  <2> SUFFICES ASSUME ~ v.raced PROVE Calm(u)
    BY <1>3, <1>5 DEF Calm
  <2>1. v.at = c /\ v.at \notin Silent \cup Paired \cup {"main", "restore", "radioBack"}
    BY ChannelNames DEF Sound, Calm, Silent, Closing, Paired
  <2>2. ~ Has(v.cmds, {Ok}) /\ AtMostOne(v.cmds, {Ok}) /\ ~ v.up
    BY <2>1 DEF Sound, Calm, Counted
  <2>3. NoneAfter(u.cmds, Blockers, {Ok})
    BY <1>6, <2>1 DEF Sound, Calm, Sleeping
  <2>4. \A d \in Channels : u.socket[d] \in {"pending", "dead"} => u.at = d
    BY <1>3, <1>5, <2>1 DEF Sound, Calm
  <2>5. Has(u.cmds, {Ok}) => u.socket[u.at] = "open"
    BY <1>3, <1>5, <1>6, <2>1, <2>2
  <2>6. u.at = "interrupt" => u.socket["control"] = "open"
    BY <1>3, <1>5, <2>1, ChannelNames DEF Sound, Calm
  <2>7. QED
    BY <1>3, <1>5, <1>6, <2>1, <2>2, <2>3, <2>4, <2>5, <2>6 DEF Calm, At
<1>14. Sound(u)
  BY <1>5, <1>6, <1>8, <1>9, <1>10, <1>12, <1>13 DEF Sound, Typed, Sleeping
<1>15. Sleeping(u, TRUE)
  BY <1>1, <1>3, <1>5, <1>6 DEF Sleeping
<1>16. QED
  BY <1>14, <1>15

LEMMA ConnectedOutboundKeeps ==
    ASSUME IInv, NEW c \in Channels, NEW status \in {"ok", "error"}, ConnectedOutbound(c, status)
    PROVE  IInv'
<1> DEFINE x == <<"Connect", status>>
           new == IF x = Ok THEN "open" ELSE "dead"
           s == Enqueue(w, x)
           u == [s EXCEPT !.socket[c] = new]
<1>1. x \in {Ok, <<"Connect", "error">>} /\ (status = "ok" <=> x = Ok)
  BY DEF Ok
<1>2. Callback /\ w.socket[c] = "pending" /\ w' = u
  BY <1>1 DEF ConnectedOutbound, Report
<1>3. Sound(w) /\ Sleeping(w, TRUE) /\ w \in Worlds
  BY <1>2, AsleepFacts
<1>4. /\ x = Ok => new = "open"
      /\ x # Ok => new = "dead"
      /\ new \in {"none", "dead", "open"}
  OBVIOUS
<1>5. x \in Commands
  BY <1>1 DEF Commands, Results, Ok
<1> HIDE DEF x, new
<1>6. s \in Worlds /\ s.up = w.up /\ s.raced = w.raced /\ s.asked = w.asked
  BY <1>3, <1>5, EnqueueFacts DEF Typed
<1> HIDE DEF s
<1>7. u = Moved(s, c, new, w.up, w.raced, w.asked)
  BY <1>6 DEF Worlds, Moved
<1>8. w.up \in BOOLEAN /\ w.raced \in BOOLEAN /\ w.asked \in SUBSET Channels
  BY <1>3 DEF Worlds
<1> HIDE DEF u
<1>9. Socketed(u, s, c, new, w.up, w.raced, w.asked)
  BY <1>4, <1>6, <1>7, <1>8, SocketFacts
<1>10. Sound(u) /\ Sleeping(u, TRUE)
  BY <1>1, <1>2, <1>3, <1>4, <1>9, AnsweredSound DEF s
<1>11. QED
  BY <1>2, <1>10, CalledBack

(* A channel is lost.                                                      *)
LEMMA LostSound ==
    ASSUME NEW v, Sound(v), Sleeping(v, TRUE), NEW c \in Channels, v.socket[c] = "open",
           NEW s, Socketed(s, v, c, "none", FALSE, v.raced \/ v.at # "main", v.asked)
    PROVE  Sound(s) /\ Sleeping(s, TRUE) /\ (s.at = "main" \/ s.raced)
<1>1. /\ s \in Worlds
      /\ \A d \in Channels : s.socket[d] = IF d = c THEN "none" ELSE v.socket[d]
      /\ s.up = FALSE /\ s.raced = (v.raced \/ v.at # "main") /\ s.asked = v.asked
      /\ s.at = v.at /\ s.back = v.back /\ s.listening = v.listening /\ s.state = v.state
      /\ s.starting = v.starting /\ s.exitapp = v.exitapp /\ s.progressing = v.progressing
      /\ s.autooff = v.autooff /\ s.fault = v.fault /\ s.cmds = v.cmds
      /\ s.leaving = v.leaving
  BY DEF Socketed
<1>2. v.at \notin Starts \cup {"unlink", "unlinkBusy"}
  BY DEF Sound, Begun, Unplugged, NoSockets
<1>3. Counted(s) /\ Kept(s) /\ Shown(s) /\ Awake(s)
  BY <1>1 DEF Sound, Counted, Kept, Shown, Awake
<1>4. Unplugged(s) /\ Begun(s)
  BY <1>1, <1>2, ChannelNames DEF Sound, Unplugged, At, Begun, Starts
<1>5. Dark(s)
  BY <1>1 DEF Sound, Dark, Leaves, At
<1>6. Calm(s)
  <2> SUFFICES ASSUME ~ v.raced, v.at = "main" PROVE Calm(s)
    BY <1>1 DEF Calm
  <2>1. "main" \notin Channels \cup Silent \cup Paired \cup {"radioBack"}
    BY ChannelNames DEF Silent, Closing, Paired
  <2>2. QED
    BY <1>1, <2>1 DEF Sound, Calm, At
<1>7. Sound(s)
  BY <1>1, <1>3, <1>4, <1>5, <1>6 DEF Sound, Typed
<1>8. Sleeping(s, TRUE)
  BY <1>1 DEF Sleeping
<1>9. QED
  BY <1>1, <1>7, <1>8

LEMMA DisconnectedKeeps ==
    ASSUME IInv, NEW c \in Channels, NEW why \in {"user", "link", "error"}, Disconnected(c, why)
    PROVE  IInv'
<1> DEFINE s == [w EXCEPT !.socket[c] = "none", !.up = FALSE, !.raced = @ \/ w.at # "main"]
<1>1. /\ Callback /\ w.socket[c] = "open"
      /\ w' = CASE why = "user"  -> Enqueue(s, Cmd("InitiateDisconnect"))
                [] why = "link"  -> [s EXCEPT !.acl = "dying"]
                [] why = "error" -> Enqueue(s, Cmd("ConnectionError"))
  BY DEF Disconnected, Open
<1>2. Sound(w) /\ Sleeping(w, TRUE) /\ w \in Worlds
  BY <1>1, AsleepFacts
<1> DEFINE raced == w.raced \/ w.at # "main"
<1>3. w.asked \in SUBSET Channels /\ raced \in BOOLEAN
  BY <1>2 DEF Worlds
<1>4. s = Moved(w, c, "none", FALSE, raced, w.asked)
  BY <1>2 DEF Worlds, Moved
<1> HIDE DEF s, raced
<1>5. Socketed(s, w, c, "none", FALSE, raced, w.asked)
  <2>1. "none" \in {"none", "dead", "open"} /\ FALSE \in BOOLEAN
    OBVIOUS
  <2>2. Socketed(Moved(w, c, "none", FALSE, raced, w.asked), w, c, "none", FALSE, raced, w.asked)
    BY <1>2, <1>3, <2>1, SocketFacts
  <2>3. QED
    BY <1>4, <2>2
<1>6. Sound(s) /\ Sleeping(s, TRUE) /\ (s.at = "main" \/ s.raced)
  BY <1>1, <1>2, <1>5, LostSound DEF raced
<1>7. CASE why = "link"
  <2>1. w' = [s EXCEPT !.acl = "dying"]
    BY <1>1, <1>7
  <2>2. Quiet([s EXCEPT !.acl = "dying"], s)
    BY <1>6, LinkQuiet
  <2>3. QED
    BY <1>1, <1>6, <2>1, <2>2, QuietSound, CalledBack
<1>8. CASE why # "link"
  <2>1. \E name \in {"InitiateDisconnect", "ConnectionError"} : w' = Enqueue(s, Cmd(name))
    BY <1>1, <1>8
  <2>2. PICK name \in {"InitiateDisconnect", "ConnectionError"} : w' = Enqueue(s, Cmd(name))
    BY <2>1
  <2>3. Cmd(name) \in Commands /\ Cmd(name) \notin Triggers \cup Late
    BY DEF Commands, Names, Triggers, Late, Ok, Cmd
  <2>4. QED
    BY <1>1, <1>6, <2>2, <2>3, Reported, CalledBack
<1>9. QED
  BY <1>7, <1>8

-----------------------------------------------------------------------------
LEMMA InitKeeps == ASSUME Init PROVE IInv
<1>1. w = Fresh /\ asleep = FALSE
  BY DEF Init
<1>2. /\ w.at = "launched" /\ w.back = "main" /\ w.socket = NoSockets /\ w.asked = {}
      /\ ~ w.listening /\ ~ w.up /\ w.state = "Disconnected" /\ w.starting /\ ~ w.exitapp
      /\ w.fault = "none" /\ w.cmds = <<>> /\ ~ w.leaving /\ ~ w.raced
      /\ w.autooff = "enabled"
  BY <1>1 DEF Fresh
<1>3. w \in Worlds
  <2>1. NoSockets \in [Channels -> {"none", "pending", "dead", "open"}] /\ {} \in SUBSET Channels
    BY DEF NoSockets
  <2>2. "launched" \in Loops /\ "main" \in QueueLoops \cup {"main"} /\ <<>> \in Seq(Commands)
    BY LoopNames, EmptySeq
  <2>3. QED
    BY <1>1, <2>1, <2>2 DEF Fresh, Worlds
<1>4. /\ \A C : ~ Has(w.cmds, C) /\ AtMostOne(w.cmds, C)
      /\ \A B, C : NoneAfter(w.cmds, B, C)
  BY <1>2, EmptySeq DEF Has, AtMostOne, NoneAfter
<1>5. /\ "launched" \in Starts \cap Idle
      /\ "launched" \notin Fixed \cup Channels \cup Silent \cup Paired \cup {"unlink", "unlinkBusy"}
      /\ "launched" \notin {"drainControl", "wait", "settle", "firstIn", "radioBack", "interrupt"}
  BY DEF Starts, Idle, Fixed, Channels, Silent, Closing, Paired
<1>6. \A c \in Channels : w.socket[c] = "none"
  BY <1>2 DEF NoSockets
<1>7. Counted(w) /\ Kept(w) /\ Unplugged(w) /\ Shown(w) /\ Awake(w) /\ Begun(w)
  BY <1>2, <1>4, <1>5 DEF Counted, Kept, Unplugged, At, Shown, Awake, Begun
<1>8. Dark(w) /\ Calm(w)
  BY <1>2, <1>4, <1>5, <1>6 DEF Dark, Calm, At
<1>9. Sound(w)
  BY <1>3, <1>4, <1>7, <1>8 DEF Sound, Typed
<1>10. Sleeping(w, asleep) /\ asleep \in BOOLEAN
  BY <1>1, <1>2, <1>5 DEF Sleeping
<1>11. QED
  BY <1>9, <1>10 DEF IInv

LEMMA NextKeeps == ASSUME IInv, [Next]_vars PROVE IInv'
<1>1. CASE UNCHANGED vars
  BY <1>1 DEF vars, IInv, Sound, Typed, Counted, Kept, Unplugged, Shown, Awake, Begun, Dark, Calm,
              Leaves, At, Sleeping
<1>2. CASE AppInit
  BY <1>2, AppInitKeeps
<1>3. CASE Take
  BY <1>3, TakeKeeps
<1>4. CASE Wake
  BY <1>4, WakeKeeps
<1>5. CASE AppStop
  BY <1>5, AppStopKeeps
<1>6. CASE BTSendTimer
  BY <1>6, BTSendTimerKeeps
<1>7. CASE AnimateTimer
  BY <1>7, AnimateTimerKeeps
<1>8. CASE \E name \in {"InitiateConnect", "WaitConnection", "InitiateDisconnect"} : Tap(name)
  BY <1>8, TapKeeps
<1>9. CASE \E status \in {"initialized", "fatal"} : RadioState(status)
  BY <1>9, RadioStateKeeps
<1>10. CASE AccessibilityChange
  BY <1>10, AccessibilityChangeKeeps
<1>11. CASE \E status \in {"ok", "error"} : ACLConnectOutbound(status)
  BY <1>11, ACLConnectOutboundKeeps
<1>12. CASE \E status \in {"ok", "error"} : EncryptionChange(status)
  BY <1>12, EncryptionChangeKeeps
<1>13. CASE \E status \in {"ok", "error"}, c \in Channels : ConnectedInbound(c, status)
  BY <1>13, ConnectedInboundKeeps
<1>14. CASE \E status \in {"ok", "error"}, c \in Channels : ConnectedOutbound(c, status)
  BY <1>14, ConnectedOutboundKeeps
<1>15. CASE \E status \in {"user", "lost"} : ACLDisconnect(status)
  BY <1>15, ACLDisconnectKeeps
<1>16. CASE \E status \in {"ok", "denied", "error"} : AuthenticationComplete(status)
  BY <1>16, AuthenticationCompleteKeeps
<1>17. CASE \E c \in Channels : ConnectRequest(c)
  BY <1>17, ConnectRequestKeeps
<1>18. CASE \E c \in Channels : SendComplete(c)
  BY <1>18, SendCompleteKeeps
<1>19. CASE \E c \in Channels, why \in {"user", "link", "error"} : Disconnected(c, why)
  BY <1>19, DisconnectedKeeps
<1>20. CASE Unplug
  BY <1>20, UnplugKeeps
<1>21. QED
  BY <1>1, <1>2, <1>3, <1>4, <1>5, <1>6, <1>7, <1>8, <1>9, <1>10, <1>11, <1>12, <1>13, <1>14,
     <1>15, <1>16, <1>17, <1>18, <1>19, <1>20 DEF Next

(* Whichever loop runs and whichever callback comes, the state is Sound,   *)
(* and nothing waits unseen behind a loop that sleeps.                     *)
THEOREM Invariant == Spec => []IInv
<1>1. Init => IInv
  BY InitKeeps
<1>2. IInv /\ [Next]_vars => IInv'
  BY NextKeeps
<1>3. QED
  BY <1>1, <1>2, PTL DEF Spec

(* The program counts as connected nowhere but in the main loop, in the    *)
(* loop of BTHandleEvent and while it ends.                                *)
THEOREM TypeTheorem == Spec => []TypeOK
<1>1. IInv => TypeOK
  BY DEF IInv, Sound, Typed, Counted, TypeOK
<1>2. QED
  BY <1>1, Invariant, PTL

(* No request to exit is lost, although the waiting loops drop all other   *)
(* commands and some of them cannot be canceled.                           *)
THEOREM ExitTheorem == Spec => []ExitKept
<1>1. IInv => ExitKept
  BY DEF IInv, Sound, Kept, Ends, Has, Waits, ExitKept
<1>2. QED
  BY <1>1, Invariant, PTL

(* BTDisconnect leaves no channel behind when it closes the link.          *)
THEOREM ClosedTheorem == Spec => []ChannelsClosed
<1>1. IInv => ChannelsClosed
  BY DEF IInv, Sound, Unplugged, ChannelsClosed
<1>2. QED
  BY <1>1, Invariant, PTL

(* Two channels are behind g_connected, unless one came or went while the  *)
(* program waited for something else.                                      *)
THEOREM ChannelsTheorem == Spec => []BothChannels
<1>1. IInv => BothChannels
  <2> SUFFICES ASSUME IInv, w.up, ~ w.raced PROVE Open(w) = Channels
    BY DEF BothChannels
  <2>1. Both(w.socket)
    BY DEF IInv, Sound, Calm
  <2>2. QED
    BY <2>1 DEF Both, Open
<1>2. QED
  BY <1>1, Invariant, PTL

(* In the main loop without a command.                                     *)
LEMMA RestFacts ==
    ASSUME IInv, AtRest
    PROVE  /\ ~ w.progressing /\ ~ w.leaving /\ w.listening
           /\ "main" \notin Starts \cup Ends \cup Fixed \cup Channels
<1>1. Sound(w) /\ w.at = "main" /\ w.cmds = <<>>
  BY DEF IInv, AtRest
<1>2. \A C : ~ Has(w.cmds, C)
  BY <1>1, EmptySeq DEF Has
<1>3. "main" \notin Starts \cup Ends \cup Fixed \cup Channels
  BY DEF Starts, Ends, Fixed, Channels
<1>4. ~ w.progressing /\ ~ w.leaving
  BY <1>1, <1>2, <1>3 DEF Sound, Shown, Kept
<1>5. w.listening
  BY <1>1, <1>3, <1>4 DEF Sound, Dark, Leaves
<1>6. QED
  BY <1>3, <1>4, <1>5

(* No assertion about the progress form fails, and it does not stay when   *)
(* there is nothing left to do.                                            *)
THEOREM ProgressTheorem == Spec => []ProgressShown
<1>1. IInv => ProgressShown
  <2> SUFFICES ASSUME IInv PROVE ProgressShown
    OBVIOUS
  <2>1. w.at \notin Idle \cup {"main"} => w.progressing
    BY DEF IInv, Sound, Shown
  <2>2. AtRest => ~ w.progressing
    BY RestFacts
  <2>3. QED
    BY <2>1, <2>2 DEF ProgressShown
<1>2. QED
  BY <1>1, Invariant, PTL

(* With the preference the auto-off timer is off exactly while connected,  *)
(* in whatever order the forms and the connection came and went.           *)
THEOREM AwakeTheorem == Spec => []AwakeWhileConnected
<1>1. IInv => AwakeWhileConnected
  <2> SUFFICES ASSUME IInv, DisableAutoOff, AtRest
               PROVE  w.autooff = "disabled" <=> w.state = "Connected"
    BY DEF AwakeWhileConnected
  <2>1. ~ w.progressing
    BY RestFacts
  <2>2. QED
    BY <2>1 DEF IInv, Sound, Awake, AtRest
<1>2. QED
  BY <1>1, Invariant, PTL

(* A host can reach the program while it waits for one and while it is     *)
(* idle: ends without a listener are on the way out, and no channel that   *)
(* an earlier attempt left is in the way, unless a result raced.           *)
THEOREM ReachTheorem == Spec => []Reachable
<1>1. IInv => Reachable
  <2> SUFFICES ASSUME IInv, w.at = "wait" \/ AtRest
               PROVE  w.listening /\ (~ w.raced => \A c \in Channels : w.socket[c] \in {"none", "open"})
    BY DEF Reachable
  <2>1. Sound(w) /\ w.at \notin Channels /\ w.listening
    <3>1. CASE AtRest
      BY <3>1, RestFacts DEF IInv, AtRest
    <3>2. CASE w.at = "wait"
      <4>1. "wait" \notin Starts \cup Ends \cup Channels
        BY DEF Starts, Ends, Channels
      <4>2. QED
        BY <3>2, <4>1 DEF IInv, Sound, Dark, At
    <3>3. QED
      BY <3>1, <3>2
  <2>2. \A c \in Channels : w.socket[c] \in {"none", "pending", "dead", "open"}
    BY <2>1 DEF Sound, Typed, Worlds
  <2>3. ~ w.raced => \A c \in Channels : w.socket[c] \notin {"pending", "dead"}
    BY <2>1 DEF Sound, Calm
  <2>4. QED
    BY <2>1, <2>2, <2>3
<1>2. QED
  BY <1>1, Invariant, PTL
=============================================================================
