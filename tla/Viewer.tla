------------------------------- MODULE Viewer -------------------------------
(* visio-display as a one-shot pipe (display/__init__.py): a relay's TCP     *)
(* link, on which many devices are multiplexed, read into a RelayRegistry    *)
(* (display/relay_registry.py) and fanned out by run_bridge.                 *)
(*                                                                           *)
(* The relay gives every connection of a device fresh stream ids and never   *)
(* one twice, forwards a device's announce as the whole list of its channels *)
(* and says nothing when a device drops. A message of the link is an         *)
(* announce [dev, chans] or data [id, topic, dev], topic and dev being what  *)
(* the sender meant. The relay and the devices are external.                 *)
EXTENDS Integers, Sequences, FiniteSets, SequencesExt

CONSTANTS Devices,
          TopicsOf,     \* the topics each device publishes
          MaxConnects,  \* bound: connections of all devices
          MaxLink       \* bound: messages in flight

FirstDynamic == 16

VARIABLES dev,      \* the relay: per device [topic -> id], <<>> when it is gone
          nextId,   \* the relay's id allocator
          link,     \* messages on the wire, in order
          byId,     \* the registry: learned channels [id, topic]
          topicId,  \* its topic -> id, as pairs
          owner,    \* learned id -> the device that announced it, as pairs
          sinks     \* [channels, row, surfaced, dropped]

vars == <<dev, nextId, link, byId, topicId, owner, sinks>>

-----------------------------------------------------------------------------
(* RelayRegistry over ChannelRegistry.                                       *)

IdOf(reg, topic) == {p[2] : p \in {q \in reg.topicId : q[1] = topic}}
OwnerOf(reg, id) == {p[2] : p \in {q \in reg.owner : q[1] = id}}

\* forget: the id's channel, and its topic if the topic still maps to it
Forget(reg, id) ==
    [byId |-> {c \in reg.byId : c.id # id},
     topicId |-> {p \in reg.topicId : ~(p[2] = id /\ \E c \in reg.byId : c.id = id /\ c.topic = p[1])},
     owner |-> {p \in reg.owner : p[1] # id}]

\* learn: refused when the topic is mapped to another id
Refused(reg, ch) == \E id \in IdOf(reg, ch.topic) : id # ch.id
Learn(reg, ch, from) ==
    IF Refused(reg, ch) THEN reg
    ELSE [byId |-> {c \in reg.byId : c.id # ch.id} \cup {ch},
          topicId |-> reg.topicId \cup {<<ch.topic, ch.id>>},
          owner |-> {p \in reg.owner : p[1] # ch.id} \cup {<<ch.id, from>>}]

\* Mutant: an id is only replaced by a new announce of that id
StaleNone(reg, ch, from) == {}

\* The same device announcing a topic under a new id has reconnected
Stale(reg, ch, from) == {id \in IdOf(reg, ch.topic) : id # ch.id /\ from \in OwnerOf(reg, id)}
Adopt(reg, ch, from) ==
    LET freed == IF Stale(reg, ch, from) = {} THEN reg
                 ELSE Forget(reg, CHOOSE id \in Stale(reg, ch, from) : TRUE)
    IN Learn(freed, ch, from)

OnAnnounce(reg, m) ==
    FoldLeft(LAMBDA r, ch : Adopt(r, ch, m.dev), reg, SetToSortSeq(m.chans, LAMBDA a, b : a.id < b.id))

Resolve(reg, id) == {c \in reg.byId : c.id = id}

-----------------------------------------------------------------------------
(* _resolved_with_device_info and run_bridge, one message of the link.       *)

\* FoxgloveSink.write: one channel per stream id, opened at its first row
Opened(channels, ch) ==
    IF \E c \in channels : c.id = ch.id THEN channels ELSE channels \cup {ch}

Registry == [byId |-> byId, topicId |-> topicId, owner |-> owner]
Accept ==
    /\ link # <<>> /\ link' = Tail(link)
    /\ LET m == Head(link)
       IN IF m.kind = "announce"
          THEN LET r == OnAnnounce(Registry, m)
               IN /\ byId' = r.byId /\ topicId' = r.topicId /\ owner' = r.owner
                  /\ sinks' = [sinks EXCEPT !.surfaced = @ \cup {m.dev}]
          ELSE /\ UNCHANGED <<byId, topicId, owner>>
               /\ IF Resolve(Registry, m.id) = {}
                  THEN sinks' = [sinks EXCEPT !.dropped = @ \cup {m.topic}]
                  ELSE LET channels == Opened(sinks.channels, CHOOSE c \in Resolve(Registry, m.id) : TRUE)
                       IN sinks' = [sinks EXCEPT !.channels = channels,
                                                 !.row = [meant |-> m.topic,
                                                          under |-> (CHOOSE c \in channels : c.id = m.id).topic]]
    /\ UNCHANGED <<dev, nextId>>

-----------------------------------------------------------------------------
(* The devices and the relay.                                                *)

Room == Len(link) < MaxLink
Announce(d, ids) ==
    [kind |-> "announce", dev |-> d, chans |-> {[id |-> ids[t], topic |-> t] : t \in TopicsOf[d]}]

Ids(topics, from) ==
    LET order == SetToSeq(topics)
    IN [t \in topics |-> from + (CHOOSE i \in DOMAIN order : order[i] = t) - 1]

DeviceConnects(d) ==
    /\ Room /\ nextId < FirstDynamic + MaxConnects
    /\ LET ids == Ids(TopicsOf[d], nextId)
       IN dev' = [dev EXCEPT ![d] = ids] /\ link' = Append(link, Announce(d, ids))
    /\ nextId' = nextId + Cardinality(TopicsOf[d])
    /\ UNCHANGED <<byId, topicId, owner, sinks>>

DeviceDrops(d) ==
    /\ dev[d] # <<>> /\ dev' = [dev EXCEPT ![d] = <<>>]
    /\ UNCHANGED <<nextId, link, byId, topicId, owner, sinks>>

DeviceAnnounces(d) ==
    /\ Room /\ dev[d] # <<>> /\ link' = Append(link, Announce(d, dev[d]))
    /\ UNCHANGED <<dev, nextId, byId, topicId, owner, sinks>>

DeviceSends(d) ==
    /\ Room /\ dev[d] # <<>>
    /\ \E t \in TopicsOf[d] : link' = Append(link, [kind |-> "data", id |-> dev[d][t], topic |-> t, dev |-> d])
    /\ UNCHANGED <<dev, nextId, byId, topicId, owner, sinks>>

Init ==
    /\ dev = [d \in Devices |-> <<>>] /\ nextId = FirstDynamic /\ link = <<>>
    /\ byId = {} /\ topicId = {} /\ owner = {}
    /\ sinks = [channels |-> {}, row |-> [meant |-> "", under |-> ""], surfaced |-> {}, dropped |-> {}]

Next ==
    \/ Accept
    \/ \E d \in Devices : DeviceConnects(d) \/ DeviceDrops(d) \/ DeviceAnnounces(d) \/ DeviceSends(d)

Spec == Init /\ [][Next]_vars

-----------------------------------------------------------------------------
InFlight(d) == \E i \in DOMAIN link : link[i].dev = d /\ link[i].kind = "announce"
Contested(t) == \E d, e \in Devices : d # e /\ t \in TopicsOf[d] \cap TopicsOf[e]

(* Every row goes out under the topic its device published it on, and only   *)
(* rows of a topic two devices claim are ever dropped. Once its announce has *)
(* been read, a connected device's topics resolve under the ids of this      *)
(* connection; a topic claimed twice is held by one of the two. And the      *)
(* registry's three tables agree: a topic has one id, an id one topic and    *)
(* one owner.                                                                *)
ReconnectIsHeard ==
    /\ sinks.row.meant = sinks.row.under
    /\ \A d \in Devices : dev[d] # <<>> /\ ~InFlight(d) =>
         \A t \in TopicsOf[d] :
           LET ids == IdOf(Registry, t)
           IN IF Contested(t) THEN \E id \in ids, e \in Devices : t \in TopicsOf[e] /\ OwnerOf(Registry, id) = {e}
              ELSE ids = {dev[d][t]}
    /\ \A t \in sinks.dropped : Contested(t)
    /\ topicId = {<<c.topic, c.id>> : c \in byId}
    /\ \A p, q \in topicId : p[1] = q[1] => p = q
    /\ {p[1] : p \in owner} = {c.id : c \in byId} /\ \A p, q \in owner : p[1] = q[1] => p = q
=============================================================================
