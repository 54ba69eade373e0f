---------------------------- MODULE ContentStore ----------------------------
(* What the registry keeps: the bolt buckets of digest mappings, tags and     *)
(* repositories (internal/storage/store.go), the IPFS node that holds the     *)
(* content (internal/ipfs/client.go), and the garbage collector that takes    *)
(* old mappings and their pins away (internal/gc/gc.go). One action is one    *)
(* bolt transaction or one call to the node. Module Registry adds the         *)
(* handlers that read and write all this.                                     *)
EXTENDS Naturals, FiniteSets

CONSTANTS
    Content,    \* blobs and manifests
    Name,       \* what a tag is stored under: a repository and a tag
    PeerHolds,  \* contents other IPFS peers provide at the start
    MaxAge,     \* config gc.max_age
    MaxTime,    \* bound of the clock
    PinContent, \* config ipfs.pin_content
    GCEnabled,  \* config gc.enabled (and not gc.dry_run, which writes nothing)
    MayGrow,    \* a transaction may outgrow the mapped database file
    Faults,     \* the faults that may happen, a subset of FaultKinds
    Absent,     \* no value under a key
    NoDigest

(* ipfs, db: a call fails; upstream: no answer or not 200; body, header: an    *)
(* upstream answer carries other content, or another Docker-Content-Digest;    *)
(* peer: a peer announces a wrong CID; crash: the process dies and restarts.   *)
FaultKinds == {"ipfs", "db", "upstream", "body", "header", "peer", "crash"}

(* A sha256 digest and a CID each determine the content they were computed     *)
(* from (no collisions), and neither is the content.                           *)
DigestOf(c) == [sha256 |-> c]
Digests == [sha256 : Content]
CIDOf(c) == [cid |-> c]
CIDs == [cid : Content]

(* Source of a mapping, told apart further than the code does: by the route    *)
(* it was stored on.                                                           *)
Sources == {"push", "upstream manifest", "upstream blob",
            "peer manifest", "peer blob"}
Mapping(cid, created, source) ==
    [cid |-> cid, created |-> created, source |-> source]
Mappings == [cid : CIDs, created : 0..MaxTime, source : Sources]
TagRef(digest, updated) == [digest |-> digest, updated |-> updated]
TagRefs == [digest : Digests, updated : 0..MaxTime]

ASSUME StoreAssumption ==
    /\ PeerHolds \subseteq Content
    /\ MaxAge \in Nat /\ MaxTime \in Nat
    /\ PinContent \in BOOLEAN /\ GCEnabled \in BOOLEAN /\ MayGrow \in BOOLEAN
    /\ Faults \subseteq FaultKinds
    /\ Absent \notin Mappings \cup TagRefs
    /\ NoDigest \notin Digests

VARIABLES
    mapping,    \* bucket "digests": digest -> mapping or Absent
    tag,        \* bucket "tags": name -> tag reference or Absent
    repo,       \* bucket "repositories": name -> manifest digests
    node,       \* CIDs whose blocks the IPFS node has
    pinned,     \* CIDs it has pinned
    remote,     \* CIDs other peers provide
    now,        \* the clock
    gc          \* the collector: [pc, snapshot, doomed, digest]

buckets == <<mapping, tag, repo>>
ipfsVars == <<node, pinned, remote>>

Sweep(pc, snapshot, doomed, digest) ==
    [pc |-> pc, snapshot |-> snapshot, doomed |-> doomed, digest |-> digest]
Empty == [d \in Digests |-> Absent]
Idle == Sweep("idle", Empty, {}, NoDigest)

StoreTypeOK ==
    /\ mapping \in [Digests -> Mappings \cup {Absent}]
    /\ tag \in [Name -> TagRefs \cup {Absent}]
    /\ repo \in [Name -> SUBSET Digests]
    /\ node \subseteq CIDs /\ pinned \subseteq CIDs /\ remote \subseteq CIDs
    /\ now \in 0..MaxTime
    /\ gc \in [pc : {"idle", "scan", "delete", "stuck"},
               snapshot : [Digests -> Mappings \cup {Absent}],
               doomed : SUBSET Digests,
               digest : Digests \cup {NoDigest}]

StoreInit ==
    /\ mapping = Empty
    /\ tag = [n \in Name |-> Absent]
    /\ repo = [n \in Name |-> {}]
    /\ node = {} /\ pinned = {}
    /\ remote = {CIDOf(c) : c \in PeerHolds}
    /\ now = 0
    /\ gc = Idle

-----------------------------------------------------------------------------
(* The transactions of the store *)

PutMapping(d, m) == mapping' = [mapping EXCEPT ![d] = m]
DeleteMapping(d) == mapping' = [mapping EXCEPT ![d] = Absent]
PutTag(n, d) == tag' = [tag EXCEPT ![n] = TagRef(d, now)]
AddRepositoryManifest(n, d) == repo' = [repo EXCEPT ![n] = @ \cup {d}]

(* The IPFS node. Reading a CID leaves its blocks on the node; asking for its  *)
(* size only finds out whether somebody has it.                                *)
(* Mutant: pin_content is not passed on.                                       *)
AddUnpinned(c) ==
    /\ node' = node \cup {CIDOf(c)}
    /\ UNCHANGED <<pinned, remote>>
Add(c) ==
    /\ node' = node \cup {CIDOf(c)}
    /\ pinned' = IF PinContent THEN pinned \cup {CIDOf(c)} ELSE pinned
    /\ UNCHANGED remote
Reachable(cid) == cid \in node \cup remote
Fetched(cid) ==
    /\ node' = node \cup {cid}
    /\ UNCHANGED <<pinned, remote>>

(* The node's own collector takes what is not pinned, peers go away. *)
NodeGC(c) ==
    /\ CIDOf(c) \in node \ pinned
    /\ node' = node \ {CIDOf(c)}
    /\ UNCHANGED <<buckets, pinned, remote, now, gc>>

PeerLeaves(c) ==
    /\ CIDOf(c) \in remote
    /\ remote' = remote \ {CIDOf(c)}
    /\ UNCHANGED <<buckets, node, pinned, now, gc>>

Tick ==
    /\ now < MaxTime
    /\ now' = now + 1
    /\ UNCHANGED <<buckets, ipfsVars, gc>>

-----------------------------------------------------------------------------
(* collect: the cutoff is taken once and ForEachMapping reads one snapshot, so *)
(* what the sweep will go through is settled when it starts. A sweep that      *)
(* finds nothing old changes nothing.                                          *)

(* Mutant: the age test the wrong way round.                                   *)
OldFlipped(m) == m.created + MaxAge > now
Old(m) == m.created + MaxAge <= now

GCBegin ==
    LET old == {d \in Digests : mapping[d] # Absent /\ Old(mapping[d])}
        seen == [d \in Digests |-> IF d \in old THEN mapping[d] ELSE Absent]
    IN
    /\ GCEnabled
    /\ gc.pc = "idle"
    /\ old # {}
    /\ gc' = Sweep("scan", seen, old, NoDigest)
    /\ UNCHANGED <<buckets, ipfsVars, now>>

AfterItem(doomed) ==
    IF doomed = {} THEN Idle ELSE Sweep("scan", gc.snapshot, doomed, NoDigest)

(* Mutant: a mapping whose CID cannot be unpinned is left alone.               *)
GCUnpinStrict(d) ==
    /\ gc.pc = "scan"
    /\ d \in gc.doomed
    /\ \/ /\ pinned' = pinned \ {gc.snapshot[d].cid}
          /\ gc' = Sweep("delete", gc.snapshot, gc.doomed, d)
       \/ /\ "ipfs" \in Faults /\ UNCHANGED pinned
          /\ gc' = AfterItem(gc.doomed \ {d})
    /\ UNCHANGED <<buckets, node, remote, now>>

(* Unpin before delete; a failure (the CID was not pinned, say) is logged.     *)
GCUnpin(d) ==
    /\ gc.pc = "scan"
    /\ d \in gc.doomed
    /\ \/ pinned' = pinned \ {gc.snapshot[d].cid}
       \/ "ipfs" \in Faults /\ UNCHANGED pinned
    /\ gc' = Sweep("delete", gc.snapshot, gc.doomed, d)
    /\ UNCHANGED <<buckets, node, remote, now>>

GCDelete ==
    /\ gc.pc = "delete"
    /\ \/ DeleteMapping(gc.digest)
       \/ "db" \in Faults /\ UNCHANGED mapping
    /\ gc' = AfterItem(gc.doomed \ {gc.digest})
    /\ UNCHANGED <<tag, repo, ipfsVars, now>>

(* The delete is a write transaction inside ForEachMapping's read transaction. *)
(* When it, or a writer it waits for, has to map a grown file, that waits for  *)
(* every reader to end, this sweep among them, and every transaction begun     *)
(* later waits behind it: nothing but a restart ends that. (Which transaction  *)
(* waits for which lock is module Lifecycle; a handler that waits already      *)
(* before the sweep gets here is one that takes no step.)                      *)
GCHangs ==
    /\ MayGrow
    /\ gc.pc = "delete"
    /\ gc' = [gc EXCEPT !.pc = "stuck"]
    /\ UNCHANGED <<buckets, ipfsVars, now>>

Stuck == gc.pc = "stuck"

(* A restart keeps the database and the node; the sweep is lost. *)
StoreCrash ==
    /\ gc' = Idle
    /\ UNCHANGED <<buckets, ipfsVars, now>>
=============================================================================
