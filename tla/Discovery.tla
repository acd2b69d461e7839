------------------------------ MODULE Discovery ------------------------------
(***************************************************************************)
(* visio_schema.display.discovery: DiscoveryService.  A serial scan, mDNS  *)
(* callbacks and the operator's own additions change one list of rows; the *)
(* launcher shows it, and connects to what a click on it resolves to.      *)
(*                                                                         *)
(* A row's label is reduced to the unit it names (_device_key), a host to  *)
(* its address and whether that is the unit's USB tether.                  *)
(***************************************************************************)
EXTENDS Integers, FiniteSets

CONSTANTS
  Units,       \* GILABS-<code8> tokens
  Addresses,   \* where a unit may be reached over IP, its Wi-Fi and its tether
  TetherOf,    \* the address of each unit's NCM tether
  MaxEvents    \* bound: plugs, announces, goodbyes and additions

VARIABLES
  world,     \* what is plugged in, what is announced where, the callback due for
             \* each name, and which names moved without a goodbye
  devices,   \* _devices
  mdns_ids,  \* _mdns_ids: the row each announced name last resolved to
  scan,      \* the serial scan in progress
  mdns,      \* the zeroconf callback in progress
  robbed,    \* names whose row went with another name's (no such set in the code)
  page,      \* the device list's stream: wake-ups posted, its event, what it sent
  events

vars == <<world, devices, mdns_ids, scan, mdns, robbed, page, events>>

NoRow == "none"
Usb(u) == [id |-> <<"usb", u>>, unit |-> u, transport |-> "usb", at |-> "tty"]
Sta(u, a) == [id |-> <<"tcp", a>>, unit |-> u, transport |-> "sta", at |-> a]
Manual(a) == [id |-> <<"tcp", a>>, unit |-> NoRow, transport |-> "ap", at |-> a]
Replay == [id |-> <<"mcap", "file">>, unit |-> NoRow, transport |-> "mcap", at |-> "file"]

-----------------------------------------------------------------------------
\* The list

Upsert(rows, d) == {r \in rows : r.id # d.id} \cup {d}
Remove(rows, id) == {r \in rows : r.id # id}

(* Mutant: nobody is told.                                                 *)
MutateSilently(rows) == devices' = rows /\ UNCHANGED page

(* _notify after every change posts a wake-up to the web server's loop; a  *)
(* row that is there already, or is not there to remove, is no change.     *)
Mutate(rows) ==
  devices' = rows /\ page' = IF rows = devices THEN page ELSE [page EXCEPT !.posted = TRUE]

(* A 10/8 host that shares our own /24: link-attached, and reachable.      *)
IsNcmTether(a) == \E u \in Units : TetherOf[u] = a /\ u \in world.plugged

Tethers(rows) == {d \in rows : d.transport = "sta" /\ d.unit # NoRow /\ IsNcmTether(d.at)}

(* A tethered unit's serial row gives way to its tether, shown as USB.     *)
UiSnapshot(rows) ==
  LET tethers == Tethers(rows)
      tethered == {d.unit : d \in tethers}
  IN {IF d \in tethers THEN [d EXCEPT !.transport = "usb"] ELSE d :
        d \in {r \in rows : ~(r.transport = "usb" /\ r.unit \in tethered)}}

Resolve(rows, id) ==
  LET clicked == {d \in rows : d.id = id}
      ncm == {d \in Tethers(rows) : \E c \in clicked : c.transport = "usb" /\ c.unit = d.unit}
  IN IF ncm # {} THEN ncm ELSE clicked

-----------------------------------------------------------------------------
(* The page's stream (_devices_sse): the loop runs the wake-up, the handler *)
(* clears its event and then reads the list.                                *)
WakeAll == page.posted /\ page' = [page EXCEPT !.posted = FALSE, !.ev = TRUE]
Clear == page.at = "wait" /\ page.ev /\ page' = [page EXCEPT !.ev = FALSE, !.at = "read"]
SendSnapshot == page.at = "read" /\ page' = [page EXCEPT !.at = "wait", !.sent = devices]
Stream == (WakeAll \/ Clear \/ SendSnapshot) /\ UNCHANGED <<world, devices, mdns_ids, scan, mdns, robbed, events>>

-----------------------------------------------------------------------------
\* Serial: _serial_loop, _scan_serial

ListPorts ==
  /\ scan.at = "waiting"
  /\ scan' = [at |-> "adding", seen |-> {}, ports |-> world.plugged, gone |-> {}]
  /\ UNCHANGED <<world, devices, mdns_ids, mdns, robbed, page, events>>
AddPort ==
  /\ scan.at = "adding"
  /\ IF scan.ports = {}
     THEN /\ scan' = [scan EXCEPT !.at = "removing",
                        !.gone = {d.id : d \in {r \in devices : r.transport = "usb"}} \ scan.seen]
          /\ UNCHANGED <<devices, page>>
     ELSE \E u \in scan.ports :
            /\ scan' = [scan EXCEPT !.ports = @ \ {u}, !.seen = @ \cup {Usb(u).id}]
            /\ Mutate(Upsert(devices, Usb(u)))
  /\ UNCHANGED <<world, mdns_ids, mdns, robbed, events>>
RemovePort ==
  /\ scan.at = "removing"
  /\ IF scan.gone = {}
     THEN scan' = [scan EXCEPT !.at = "waiting"] /\ UNCHANGED <<devices, page>>
     ELSE \E id \in scan.gone :
            /\ scan' = [scan EXCEPT !.gone = @ \ {id}]
            /\ Mutate(Remove(devices, id))
  /\ UNCHANGED <<world, mdns_ids, mdns, robbed, events>>
SerialLoop == ListPorts \/ AddPort \/ RemovePort

-----------------------------------------------------------------------------
\* mDNS: the browser's callbacks, one at a time on its thread

(* add_service resolves the name, update_service one that is not known     *)
(* yet, remove_service drops it.  Before the resolution the record may be  *)
(* gone again; a name that moved has its old row dropped first.            *)
Callback ==
  /\ mdns.at = "idle"
  /\ \E u \in Units :
       LET kind == world.due[u]
       IN /\ kind # "none" /\ world' = [world EXCEPT !.due[u] = "none"]
          /\ mdns' = IF kind = "remove" THEN [at |-> "off", name |-> u, addr |-> NoRow]
                     ELSE IF kind = "add" \/ mdns_ids[u] = NoRow
                     THEN [at |-> "resolve", name |-> u, addr |-> NoRow] ELSE mdns
  /\ UNCHANGED <<devices, mdns_ids, scan, robbed, page, events>>
GetServiceInfo ==
  /\ mdns.at = "resolve"
  /\ mdns' = IF world.announced[mdns.name] = NoRow THEN [mdns EXCEPT !.at = "idle"]
             ELSE [mdns EXCEPT !.at = "drop", !.addr = world.announced[mdns.name]]
  /\ UNCHANGED <<world, devices, mdns_ids, scan, robbed, page, events>>
(* The other names that had resolved to a lose its row.                    *)
Sharing(u, a) == {v \in Units \ {u} : mdns_ids[v] = a}
DropMoved ==
  /\ mdns.at = "drop"
  /\ LET prev == mdns_ids[mdns.name]
     IN IF prev # NoRow /\ prev # mdns.addr
        THEN Mutate(Remove(devices, <<"tcp", prev>>)) /\ robbed' = robbed \cup Sharing(mdns.name, prev)
        ELSE UNCHANGED <<devices, page, robbed>>
  /\ mdns_ids' = [mdns_ids EXCEPT ![mdns.name] = mdns.addr]
  /\ mdns' = [mdns EXCEPT !.at = "add"]
  /\ UNCHANGED <<world, scan, events>>
OnMdns ==
  /\ mdns.at = "add" /\ mdns' = [mdns EXCEPT !.at = "idle"]
  /\ Mutate(Upsert(devices, Sta(mdns.name, mdns.addr)))
  /\ robbed' = {v \in robbed : mdns_ids[v] # mdns.addr}
  /\ UNCHANGED <<world, mdns_ids, scan, events>>
(* Mutant: the name is forgotten, its row is not.                          *)
OffMdnsKeepsRow ==
  /\ mdns.at = "off" /\ mdns' = [mdns EXCEPT !.at = "idle"]
  /\ mdns_ids' = [mdns_ids EXCEPT ![mdns.name] = NoRow]
  /\ UNCHANGED <<world, devices, page, robbed, scan, events>>

OffMdns ==
  /\ mdns.at = "off" /\ mdns' = [mdns EXCEPT !.at = "idle"]
  /\ mdns_ids' = [mdns_ids EXCEPT ![mdns.name] = NoRow]
  /\ LET prev == mdns_ids[mdns.name]
     IN IF prev = NoRow THEN UNCHANGED <<devices, page, robbed>>
        ELSE Mutate(Remove(devices, <<"tcp", prev>>)) /\ robbed' = robbed \cup Sharing(mdns.name, prev)
  /\ UNCHANGED <<world, scan, events>>
Browser == Callback \/ GetServiceInfo \/ DropMoved \/ OnMdns \/ OffMdns

-----------------------------------------------------------------------------
\* The operator, and the world

(* add_manual: what answers at an address now is listed.                   *)
AddManual ==
  /\ events < MaxEvents /\ events' = events + 1
  /\ \E a \in {world.announced[u] : u \in Units} \ {NoRow} : Mutate(Upsert(devices, Manual(a)))
  /\ UNCHANGED <<world, mdns_ids, scan, mdns, robbed>>
AddMcap ==
  /\ events < MaxEvents /\ events' = events + 1 /\ Mutate(Upsert(devices, Replay))
  /\ UNCHANGED <<world, mdns_ids, scan, mdns, robbed>>

(* Two units may announce one address, unless it is a tether: that is one  *)
(* unit's own, and its while it is plugged.                                *)
MayAnnounce(u, a) == (\E v \in Units : TetherOf[v] = a) => a = TetherOf[u] /\ u \in world.plugged

Plug ==
  \E u \in Units : world' = [world EXCEPT !.plugged = IF u \in @ THEN @ \ {u} ELSE @ \cup {u}]
(* A goodbye that was not delivered yet is overtaken by the next hello.    *)
Hello ==
  \E u \in Units, a \in Addresses :
    /\ world.announced[u] = NoRow /\ MayAnnounce(u, a)
    /\ world' = [world EXCEPT !.announced[u] = a, !.due[u] = "add", !.moved = world.moved \ {u}]
(* A refresh, of what is announced or of an address the unit moved to      *)
(* without a goodbye; what is due already stays due.                       *)
Refresh ==
  \E u \in Units, a \in Addresses :
    /\ world.announced[u] # NoRow /\ MayAnnounce(u, a)
    /\ LET kind == IF world.due[u] = "none" THEN "update" ELSE world.due[u]
           gone == IF a = world.announced[u] \/ world.due[u] = "add" THEN {} ELSE {u}
       IN world' = [world EXCEPT !.announced[u] = a, !.due[u] = kind, !.moved = world.moved \cup gone]
Goodbye ==
  \E u \in Units :
    /\ world.announced[u] # NoRow
    /\ world' = [world EXCEPT !.announced[u] = NoRow, !.due[u] = "remove",
                             !.moved = world.moved \ {u}]
World ==
  /\ events < MaxEvents /\ events' = events + 1
  /\ Plug \/ Hello \/ Refresh \/ Goodbye
  /\ UNCHANGED <<devices, mdns_ids, scan, mdns, robbed, page>>

Init ==
  /\ world = [plugged |-> {}, announced |-> [u \in Units |-> NoRow],
              due |-> [u \in Units |-> "none"], moved |-> {}]
  /\ devices = {} /\ page = [posted |-> FALSE, ev |-> FALSE, at |-> "wait", sent |-> {}] /\ events = 0
  /\ mdns_ids = [u \in Units |-> NoRow]
  /\ scan = [at |-> "waiting", seen |-> {}, ports |-> {}, gone |-> {}]
  /\ mdns = [at |-> "idle", name |-> NoRow, addr |-> NoRow] /\ robbed = {}

Next == SerialLoop \/ Browser \/ Stream \/ AddManual \/ AddMcap \/ World
Spec == Init /\ [][Next]_vars
FairSpec == Spec /\ WF_vars(SerialLoop) /\ WF_vars(Browser) /\ WF_vars(Stream)

-----------------------------------------------------------------------------
(* Every Wi-Fi row is backed by the name it came from; ids are unique; a   *)
(* page behind the list has a wake-up on its way; and with the browser     *)
(* between callbacks every name it resolved has a row at its address,      *)
(* unless another name that had resolved to that address took it along     *)
(* when it left (_on_mdns, _off_mdns).                                     *)
RowsBacked ==
  /\ page.sent # devices => page.posted \/ page.ev \/ page.at = "read"
  /\ \A d, e \in devices : d.id = e.id => d = e
  /\ \A d \in devices : d.transport = "sta" => mdns_ids[d.unit] = d.at
  /\ mdns.at = "idle" =>
       \A u \in Units \ robbed : mdns_ids[u] # NoRow =>
         \E d \in devices : d.id = <<"tcp", mdns_ids[u]>>

(* A unit on its tether is shown once, as a USB row, and whichever of its  *)
(* rows is clicked, stale or not, it is connected over the tether; a click *)
(* never lands on another unit (ui_snapshot, resolve).                     *)
UnitOnce ==
  LET shown == UiSnapshot(devices)
  IN /\ \A d, e \in shown : d.transport = "usb" /\ e.transport = "usb" /\ d.unit = e.unit => d = e
     /\ \A d \in devices :
          /\ Cardinality(Resolve(devices, d.id)) = 1
          /\ \A r \in Resolve(devices, d.id) :
               /\ r.unit = d.unit
               /\ d.transport = "usb" /\ d.unit \in {t.unit : t \in Tethers(devices)} =>
                    r.at = TetherOf[d.unit]

(* What the list comes to once nothing changes: the page shows it, and what *)
(* is plugged in or announced is in it and what is not is not.             *)
PageShown == page.sent = devices
UsbListed(u) == Usb(u) \in devices
TcpListed(a) == \E d \in devices : d.id = <<"tcp", a>>
(* Where it is was told to the browser, and its row is still its own.      *)
Followed(u) == u \notin world.moved \cup robbed
=============================================================================
