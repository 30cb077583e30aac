------------------------------ MODULE DevList ------------------------------
(***************************************************************************)
(* src/DevList.c, the list of known hosts with its database and the index  *)
(* of the selected one (SPREF (device)), and those who use it: the connect *)
(* form, the details dialog, src/Bluetooth.c and the unplug command of     *)
(* src/Main.c.                                                             *)
(*                                                                         *)
(* Inbound connections are callbacks of the Bluetooth library, so they come*)
(* while a dialog or BTConnect waits with a pointer to a device in hand,   *)
(* and each of the two channels may be taken by another host.              *)
(***************************************************************************)
EXTENDS Integers, Sequences, FiniteSets, SequencesExt

CONSTANTS
    Addrs,  \* Bluetooth addresses of hosts
    MaxUID  \* bound: how many records are ever created

None            == 0
noListSelection == 65535

(* The index of a record is a 16-bit number.                               *)
ASSUME DevListAssumption == MaxUID \in Nat \ {0} /\ MaxUID <= noListSelection

VARIABLES
    db,     \* the database: records with uid, addr, encryptLink and the delete attribute
    list,   \* the devices d[0 .. g_size - 1], without the attribute
    device, \* SPREF (device)
    saved,  \* the preference as it was saved
    at,     \* where the program is: "form" (the connect form, or Wait), "connected",
            \* "details" (in DevListDetails), "connect" and "authenticate" (in
            \* BTConnect), "closed"
    dev,    \* the uid of the device that DevListDetails or BTConnect holds
    hosts,  \* the host each channel is connected with
    retry,  \* Main.c: whether to connect again after an error
    panic   \* whether a PANICIF has fired

vars == <<db, list, device, saved, at, dev, hosts, retry, panic>>
records  == <<db, list, device>>

-----------------------------------------------------------------------------
UIDs   == {list[i].uid : i \in 1 .. Len(list)}
Known  == {list[i].addr : i \in 1 .. Len(list)}
Index(uid) == CHOOSE i \in 1 .. Len(list) : list[i].uid = uid
AtAddr(a)  == CHOOSE i \in 1 .. Len(list) : list[i].addr = a
Record(uid) == CHOOSE i \in 1 .. Len(db) : db[i].uid = uid /\ ~ db[i].deleted
HasRecord(uid) == \E i \in 1 .. Len(db) : db[i].uid = uid /\ ~ db[i].deleted

(* DevListSelected: what it returns, and what it leaves in SPREF (device). *)
Selection == IF list # <<>> /\ device # noListSelection /\ device >= Len(list) THEN 0 ELSE device
Selected  == IF list = <<>> \/ device = noListSelection THEN None ELSE list[Selection + 1].uid

(* DevListUpdate writes device d of the list to its record.                *)
Written(d) ==
    [db EXCEPT ![Record(d.uid)] =
        [uid |-> d.uid, addr |-> d.addr, enc |-> d.enc, deleted |-> FALSE]]

(* mutant: the preference is only changed when the selected device goes    *)
DeletedStays(i, sel) ==
    CASE Len(list) = 1 -> noListSelection
      [] OTHER -> IF sel = i - 1 /\ i > 1 THEN sel - 1 ELSE sel

(* The selection sel after the device at i was deleted.                    *)
Deleted(i, sel) ==
    CASE Len(list) = 1 -> noListSelection
      [] OTHER -> IF sel > i - 1 \/ (sel = i - 1 /\ i > 1) THEN sel - 1 ELSE sel

DevListDelete(uid) ==
    \/ /\ list = <<>> \/ (uid # None /\ ~ HasRecord(uid))
       /\ panic' = TRUE /\ UNCHANGED records
    \/ list # <<>> /\ uid = None /\ UNCHANGED <<records, panic>>
    \/ /\ list # <<>> /\ HasRecord(uid)
       /\ db' = [db EXCEPT ![Record(uid)].deleted = TRUE]
       /\ list' = RemoveAt(list, Index(uid))
       /\ device' = Deleted(Index(uid), device)
       /\ UNCHANGED panic

NewDevice(a) == [uid |-> Len(db) + 1, addr |-> a, enc |-> FALSE]
AddDevice(a) ==
    /\ Len(db) < MaxUID
    /\ list' = Append(list, NewDevice(a))
    /\ db' = Append(db, [uid |-> Len(db) + 1, addr |-> a, enc |-> FALSE, deleted |-> FALSE])
    /\ device' = Len(list)

(* mutant: a known device is changed in memory only                        *)
DevListAddUnwritten(a) ==
    IF a \in Known
    THEN /\ list' = [list EXCEPT ![AtAddr(a)].enc = FALSE]
         /\ UNCHANGED <<db, device>>
    ELSE AddDevice(a)

(* DevListAdd of the device that SetupNewAddress makes of an address: a    *)
(* known one is overwritten where it is.                                   *)
DevListAdd(a) ==
    \/ /\ a \in Known
       /\ list' = [list EXCEPT ![AtAddr(a)].enc = FALSE]
       /\ db' = Written(list'[AtAddr(a)])
       /\ UNCHANGED device
    \/ a \notin Known /\ AddDevice(a)

-----------------------------------------------------------------------------
(* DevListInit goes through the database in order.                         *)
Live(rs)  == {r \in 1 .. Len(rs) : ~ rs[r].deleted}
Entry(r)  == [uid |-> r.uid, addr |-> r.addr, enc |-> r.enc]
Place(rs) == CHOOSE f \in [1 .. Cardinality(Live(rs)) -> Live(rs)] :
                 \A i, j \in 1 .. Cardinality(Live(rs)) : i < j => f[i] < f[j]
Loaded(rs) == LET place == Place(rs)
              IN  [i \in 1 .. Cardinality(Live(rs)) |-> Entry(rs[place[i]])]

Channels  == {"control", "interrupt"}
NoHosts   == [c \in Channels |-> None]
Connected == \A c \in Channels : hosts[c] # None

Init ==
    /\ db = <<>> /\ list = <<>> /\ device = 0 /\ saved = 0
    /\ at = "form" /\ dev = None /\ hosts = NoHosts /\ retry = FALSE /\ panic = FALSE

Running == at # "closed" /\ ~ panic
Form    == at = "form" /\ ~ panic

-----------------------------------------------------------------------------
(* The library's callbacks: SetupNewAddress for a ConnectRequest, which    *)
(* then is accepted; a channel ends.                                       *)
Inbound(c, a) ==
    /\ Running /\ hosts[c] = None /\ hosts' = [hosts EXCEPT ![c] = a]
    /\ DevListAdd(a)
    /\ UNCHANGED <<saved, at, dev, retry, panic>>

Lost(c) ==
    /\ Running /\ hosts[c] # None /\ hosts' = [hosts EXCEPT ![c] = None]
    /\ UNCHANGED <<records, saved, at, dev, retry, panic>>

-----------------------------------------------------------------------------
(* The connect form: a tap on the list, DevListSetSelected (DevListGet (i));*)
(* the up and down keys; the New button; the menu's Add Device.            *)
Select(i) ==
    /\ Form /\ i < Len(list) /\ device' = i
    /\ UNCHANGED <<db, list, saved, at, dev, hosts, retry, panic>>

Move(step) ==
    /\ Form /\ list # <<>>
    /\ \/ Selected = None /\ device' = 0
       \/ /\ Selected # None /\ Selection + step \in 0 .. Len(list) - 1
          /\ device' = Selection + step
    /\ UNCHANGED <<db, list, saved, at, dev, hosts, retry, panic>>

New ==
    /\ Form /\ device' = noListSelection
    /\ UNCHANGED <<db, list, saved, at, dev, hosts, retry, panic>>

BTSelectDevice(a) ==
    /\ Form /\ DevListAdd(a)
    /\ UNCHANGED <<saved, at, dev, hosts, retry, panic>>

-----------------------------------------------------------------------------
(* DevListDetails keeps a pointer to the selected device.                  *)
Hold(where) == at' = where /\ dev' = Selected /\ device' = Selection
Released(where) == at' = where /\ dev' = None

DevListDetails ==
    /\ Form /\ Selected # None /\ Hold("details")
    /\ UNCHANGED <<db, list, saved, hosts, retry, panic>>

EncryptLinkCheckbox(on) ==
    /\ at = "details" /\ ~ panic
    /\ \/ /\ HasRecord(dev)
          /\ list' = [list EXCEPT ![Index(dev)].enc = on]
          /\ db' = Written(list'[Index(dev)])
          /\ UNCHANGED panic
       \/ ~ HasRecord(dev) /\ panic' = TRUE /\ UNCHANGED <<db, list>>
    /\ UNCHANGED <<device, saved, at, dev, hosts, retry>>

(* mutant: the dialog stays open                                           *)
DeleteButtonStays ==
    /\ at = "details" /\ ~ panic /\ DevListDelete(dev)
    /\ UNCHANGED <<saved, at, dev, hosts, retry>>

DeleteButton ==
    /\ at = "details" /\ ~ panic /\ DevListDelete(dev)
    /\ Released("form") /\ UNCHANGED <<saved, hosts, retry>>

OKButton ==
    /\ at = "details" /\ ~ panic /\ Released("form")
    /\ UNCHANGED <<records, saved, hosts, retry, panic>>

-----------------------------------------------------------------------------
(* BTConnect keeps one, too. It authenticates if the encryptLink of the    *)
(* device says so when the link is up; while that takes its time, a host   *)
(* that comes in clears the flag.  It ends with an error, which is that of *)
(* the authentication or another, or with both channels connected, some by *)
(* the host that came in.                                                  *)
Connect ==
    /\ Form /\ Selected # None /\ Hold("connect")
    /\ UNCHANGED <<db, list, saved, hosts, retry, panic>>

Connecting == at \in {"connect", "authenticate"} /\ ~ panic

ConnectFails ==
    /\ Connecting /\ Released("form")
    /\ hosts' = NoHosts /\ retry' = FALSE
    /\ UNCHANGED <<records, saved, panic>>

Authenticate ==
    /\ at = "connect" /\ ~ panic /\ list[Index(dev)].enc
    /\ at' = "authenticate"
    /\ UNCHANGED <<records, saved, dev, hosts, retry, panic>>

AuthenticationFails ==
    /\ at = "authenticate" /\ ~ panic
    /\ DevListDelete(Selected)
    /\ Released("form") /\ hosts' = NoHosts /\ retry' = FALSE
    /\ UNCHANGED saved

(* It returns at once when both channels have been connected already.      *)
ConnectSucceeds ==
    /\ Connecting /\ (at = "connect" => Connected \/ ~ list[Index(dev)].enc)
    /\ Released("connected") /\ retry' = TRUE
    /\ hosts' = [c \in Channels |-> IF hosts[c] = None THEN list[Index(dev)].addr ELSE hosts[c]]
    /\ panic' = ~ HasRecord(dev)
    /\ UNCHANGED <<records, saved>>

(* Wait ends when both channels are connected.                             *)
Wait ==
    /\ Form /\ Connected /\ at' = "connected" /\ retry' = FALSE
    /\ UNCHANGED <<records, saved, dev, hosts, panic>>

(* An error on the connection or the wish of the user: Disconnect; an      *)
(* error while retry is set: Reconnect.                                    *)
Disconnect ==
    /\ at = "connected" /\ ~ panic /\ at' = "form"
    /\ hosts' = NoHosts /\ retry' = FALSE
    /\ UNCHANGED <<records, saved, dev, panic>>

Reconnect ==
    /\ at = "connected" /\ ~ panic /\ retry /\ Selected # None
    /\ Hold("connect") /\ hosts' = NoHosts
    /\ UNCHANGED <<db, list, saved, retry, panic>>

(* CmdUnplugReceived.                                                      *)
Unplug ==
    /\ at = "connected" /\ ~ panic /\ at' = "form" /\ retry' = FALSE
    /\ \/ Selected # None /\ DevListDelete(Selected)
       \/ Selected = None /\ UNCHANGED <<records, panic>>
    /\ UNCHANGED <<saved, dev, hosts>>

-----------------------------------------------------------------------------
(* The program ends and saves its preferences, or the device is reset; the *)
(* program starts again.                                                   *)
Close ==
    /\ Running /\ saved' \in {saved, device}
    /\ list' = <<>> /\ Released("closed") /\ hosts' = NoHosts /\ retry' = FALSE
    /\ UNCHANGED <<db, device, panic>>

DevListInit ==
    /\ at = "closed" /\ at' = "form"
    /\ list' = Loaded(db)
    /\ device' = IF saved >= Len(list') THEN 0 ELSE saved
    /\ UNCHANGED <<db, saved, dev, hosts, retry, panic>>

Next ==
    \/ \E c \in Channels : Lost(c) \/ \E a \in Addrs : Inbound(c, a)
    \/ \E a \in Addrs : BTSelectDevice(a)
    \/ \E i \in 0 .. MaxUID - 1 : Select(i)
    \/ \E step \in {-1, 1} : Move(step)
    \/ \E on \in BOOLEAN : EncryptLinkCheckbox(on)
    \/ New \/ DevListDetails \/ DeleteButton \/ OKButton
    \/ Connect \/ ConnectFails \/ Authenticate \/ AuthenticationFails \/ ConnectSucceeds
    \/ Wait \/ Disconnect \/ Reconnect \/ Unplug \/ Close \/ DevListInit

Spec == Init /\ [][Next]_vars

-----------------------------------------------------------------------------
(* Uids, hosts and places are what their names say.                        *)
TypeOK ==
    /\ db \in Seq([uid : 1 .. MaxUID, addr : Addrs, enc : BOOLEAN, deleted : BOOLEAN])
    /\ list \in Seq([uid : 1 .. MaxUID, addr : Addrs, enc : BOOLEAN])
    /\ device \in 0 .. noListSelection /\ saved \in 0 .. noListSelection
    /\ at \in {"form", "connected", "details", "connect", "authenticate", "closed"}
    /\ dev \in 0 .. MaxUID
    /\ hosts \in [Channels -> Addrs \cup {None}]
    /\ retry \in BOOLEAN /\ panic \in BOOLEAN

(* Whatever comes in while a dialog is open or a connection is made, the   *)
(* list in memory is what a restart would load from the database, in the   *)
(* same order and with the same encryption flags.  A host has one entry,   *)
(* however often it connects, is found again, fails to authenticate or     *)
(* unplugs, and the selected device is in the list: "no selection", which  *)
(* is the largest index, is never counted down.                            *)
ListStored ==
    /\ TypeOK
    /\ at # "closed" => list = Loaded(db)
    /\ \A i, j \in 1 .. Len(list) : list[i].addr = list[j].addr => i = j
    /\ at # "closed" /\ list # <<>> => device \in 0 .. Len(list) - 1 \cup {noListSelection}

(* Deleting a device other than the selected one, as the details dialog    *)
(* and BTConnect may after a host came in, does not change which device is *)
(* selected.                                                               *)
SelectionFollows ==
    [][at # "closed" /\ at' # "closed" /\ Selected \in UIDs' /\ Len(list') < Len(list)
       => Selected' = Selected]_vars

(* The pointer that a dialog or BTConnect holds while callbacks run is to  *)
(* a device of the list, so that no PANICIF of the list fires: nothing is  *)
(* deleted from an empty list or written to a record that is gone.         *)
HeldInList == ~ panic /\ (dev # None => dev \in UIDs)
=============================================================================
