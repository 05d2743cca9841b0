---------------------------- MODULE Certificates ----------------------------
(***************************************************************************)
(* internal/core/certgen: the root that is minted once and kept in two     *)
(* files (LoadOrCreateCA, writeCA), and the leaves handshakes are answered *)
(* with, minted under it and kept in a bounded cache (Leaf).               *)
(***************************************************************************)
EXTENDS Integers, Sequences, SequencesExt

CONSTANTS
    Hosts,
    Handshakes,  \* handshakes that may be under way together
    MaxCached,   \* MaxCachedLeaves
    MaxRoots,    \* roots minted, numbered
    None

CertificatesAssumption ==
    /\ MaxCached \in Nat \ {0} /\ MaxRoots \in Nat
    /\ None \notin Nat \cup Hosts \cup [root : Nat, live : BOOLEAN]

VARIABLES
    certFile, keyFile,  \* None, 0 for a file cut short, or the root it is of
    minted,    \* roots minted so far
    boot,      \* LoadOrCreateCA: where it stands, the root it has
    root,      \* the Authority's root while the program runs
    trusted,   \* the root the person installed on the clients
    cached,    \* Authority.cache: host -> None, or the leaf
    order,     \* Authority.order, most recently used first
    shake,     \* the handshakes
    tampered   \* history: a person took one of the files away

certVars == <<certFile, keyFile, minted, boot, root, trusted, cached, order, shake, tampered>>

\* live: it has more than leafMargin to go.
Leaf(r) == [root |-> r, live |-> TRUE]

Calm == [at |-> "idle", host |-> None, leaf |-> None]

NotBooting == [at |-> "off", root |-> None]

CertificatesInit ==
    /\ certFile = None /\ keyFile = None
    /\ minted = 0
    /\ boot = NotBooting
    /\ root = None /\ trusted = None
    /\ cached = [h \in Hosts |-> None]
    /\ order = <<>>
    /\ shake = [c \in Handshakes |-> Calm]
    /\ tampered = FALSE

-----------------------------------------------------------------------------
(* A start.                                                                *)

Stopped == root = None /\ boot.at = "off"

\* Both files are there and are a pair.
LoadCA ==
    /\ Stopped
    /\ certFile # None /\ certFile # 0 /\ certFile = keyFile
    /\ boot' = [at |-> "ready", root |-> certFile]
    /\ UNCHANGED <<certFile, keyFile, minted, root, trusted, cached, order, shake, tampered>>

\* Broken: what is missing is minted, together with what is not.
MintCAMissing ==
    /\ Stopped /\ minted < MaxRoots
    /\ certFile = None \/ keyFile = None
    /\ minted' = minted + 1
    /\ boot' = [at |-> "writeCert", root |-> minted']
    /\ UNCHANGED <<certFile, keyFile, root, trusted, cached, order, shake, tampered>>

\* Neither is there.  One alone, or two that are no pair, stop the start.
MintCA ==
    /\ Stopped /\ minted < MaxRoots
    /\ certFile = None /\ keyFile = None
    /\ minted' = minted + 1
    /\ boot' = [at |-> "writeCert", root |-> minted']
    /\ UNCHANGED <<certFile, keyFile, root, trusted, cached, order, shake, tampered>>

\* writeCA.  A file is there, and empty, before it is whole.
BeginFile ==
    /\ \/ boot.at = "writeCert" /\ certFile' = 0 /\ UNCHANGED keyFile
          /\ boot' = [boot EXCEPT !.at = "certOpen"]
       \/ boot.at = "writeKey" /\ keyFile' = 0 /\ UNCHANGED certFile
          /\ boot' = [boot EXCEPT !.at = "keyOpen"]
    /\ UNCHANGED <<minted, root, trusted, cached, order, shake, tampered>>

EndFile ==
    /\ \/ boot.at = "certOpen" /\ certFile' = boot.root /\ UNCHANGED keyFile
          /\ boot' = [boot EXCEPT !.at = "writeKey"]
       \/ boot.at = "keyOpen" /\ keyFile' = boot.root /\ UNCHANGED certFile
          /\ boot' = [boot EXCEPT !.at = "ready"]
    /\ UNCHANGED <<minted, root, trusted, cached, order, shake, tampered>>

\* New: the cache is empty.
NewAuthority ==
    /\ boot.at = "ready"
    /\ root' = boot.root
    /\ boot' = NotBooting
    /\ cached' = [h \in Hosts |-> None]
    /\ order' = <<>>
    /\ UNCHANGED <<certFile, keyFile, minted, trusted, shake, tampered>>

\* The program stops, a start fails, or the machine does.
Stop ==
    /\ ~Stopped
    /\ boot' = NotBooting
    /\ root' = None
    /\ shake' = [c \in Handshakes |-> Calm]
    /\ UNCHANGED <<certFile, keyFile, minted, trusted, cached, order, tampered>>

\* `ihttp cert install` trusts the file, whether the program runs or not.
Install ==
    /\ certFile \notin {None, 0}
    /\ trusted' = certFile
    /\ UNCHANGED <<certFile, keyFile, minted, boot, root, cached, order, shake, tampered>>

\* "Remove it to mint a new pair."
TakeAway ==
    /\ Stopped
    /\ \/ certFile # None /\ certFile' = None /\ UNCHANGED keyFile
       \/ keyFile # None /\ keyFile' = None /\ UNCHANGED certFile
    /\ tampered' = TRUE
    /\ UNCHANGED <<minted, boot, root, trusted, cached, order, shake>>

-----------------------------------------------------------------------------
(* Leaf.  The cache is looked at and written under its lock; a leaf is     *)
(* minted without it.                                                      *)

\* list.List: the element at a place goes to the front, the others keep their
\* order.
MoveToFront(list, at) ==
    [n \in 1 .. Len(list) |-> IF n = 1 THEN list[at]
                             ELSE IF n <= at THEN list[n - 1] ELSE list[n]]

\* A host that is cached has its place, another one gets one.
ToFront(h) ==
    IF cached[h] = None THEN <<h>> \o order
    ELSE MoveToFront(order, CHOOSE n \in 1 .. Len(order) : order[n] = h)

Expire(h) ==
    /\ root # None /\ cached[h] # None /\ cached[h].live
    /\ cached' = [cached EXCEPT ![h].live = FALSE]
    /\ UNCHANGED <<certFile, keyFile, minted, boot, root, trusted, order, shake, tampered>>

LookUpLeaf(c, h) ==
    /\ root # None /\ shake[c].at = "idle"
    /\ IF cached[h] # None /\ cached[h].live
       THEN /\ order' = ToFront(h)
            /\ shake' = [shake EXCEPT ![c] = [at |-> "served", host |-> h, leaf |-> cached[h]]]
       ELSE /\ shake' = [shake EXCEPT ![c] = [at |-> "mint", host |-> h, leaf |-> Leaf(root)]]
            /\ UNCHANGED order
    /\ UNCHANGED <<certFile, keyFile, minted, boot, root, trusted, cached, tampered>>

\* Broken: a leaf that replaces an expired one is put at the front once more.
StoreLeafAgain(c) ==
    LET h == shake[c].host
        queue == <<h>> \o order
        out == IF Len(queue) > MaxCached THEN Last(queue) ELSE None
    IN
    /\ shake[c].at = "mint"
    /\ IF cached[h] # None /\ cached[h].live
       THEN /\ order' = ToFront(h)
            /\ shake' = [shake EXCEPT ![c].at = "served", ![c].leaf = cached[h]]
            /\ UNCHANGED cached
       ELSE /\ order' = IF out = None THEN queue ELSE Front(queue)
            /\ cached' = [g \in Hosts |-> IF g = out THEN None
                                          ELSE IF g = h THEN shake[c].leaf ELSE cached[g]]
            /\ shake' = [shake EXCEPT ![c].at = "served"]
    /\ UNCHANGED <<certFile, keyFile, minted, boot, root, trusted, tampered>>

\* Another handshake may have stored one meanwhile.  The least recently used
\* goes when there is no room.
StoreLeaf(c) ==
    LET h == shake[c].host
        queue == ToFront(h)
        out == IF Len(queue) > MaxCached THEN Last(queue) ELSE None
    IN
    /\ shake[c].at = "mint"
    /\ IF cached[h] # None /\ cached[h].live
       THEN /\ order' = queue
            /\ shake' = [shake EXCEPT ![c].at = "served", ![c].leaf = cached[h]]
            /\ UNCHANGED cached
       ELSE /\ order' = IF out = None THEN queue ELSE Front(queue)
            /\ cached' = [g \in Hosts |-> IF g = out THEN None
                                          ELSE IF g = h THEN shake[c].leaf ELSE cached[g]]
            /\ shake' = [shake EXCEPT ![c].at = "served"]
    /\ UNCHANGED <<certFile, keyFile, minted, boot, root, trusted, tampered>>

Served(c) ==
    /\ shake[c].at = "served"
    /\ shake' = [shake EXCEPT ![c] = Calm]
    /\ UNCHANGED <<certFile, keyFile, minted, boot, root, trusted, cached, order, tampered>>

-----------------------------------------------------------------------------
CertificatesNext ==
    \/ LoadCA \/ MintCA \/ BeginFile \/ EndFile \/ NewAuthority
    \/ Stop \/ Install \/ TakeAway
    \/ \E h \in Hosts : Expire(h)
    \/ \E c \in Handshakes :
          \/ \E h \in Hosts : LookUpLeaf(c, h)
          \/ StoreLeaf(c) \/ Served(c)

CertificatesSpec == CertificatesInit /\ [][CertificatesNext]_certVars

-----------------------------------------------------------------------------
(* Properties.                                                             *)

Leaves == [root : 1 .. MaxRoots, live : BOOLEAN]

Shaking ==
    [at : {"idle"}, host : {None}, leaf : {None}]
    \cup [at : {"mint", "served"}, host : Hosts, leaf : Leaves]

CertificatesTypeOK ==
    /\ {certFile, keyFile} \subseteq {None} \cup (0 .. MaxRoots)
    /\ minted \in 0 .. MaxRoots
    /\ boot \in {NotBooting} \cup
               [at : {"writeCert", "certOpen", "writeKey", "keyOpen", "ready"},
                root : 1 .. MaxRoots]
    /\ {root, trusted} \subseteq {None} \cup (1 .. MaxRoots)
    /\ cached \in [Hosts -> {None} \cup Leaves]
    /\ order \in Seq(Hosts)
    /\ shake \in [Handshakes -> Shaking]
    /\ tampered \in BOOLEAN

\* "A root the operator trusts must keep its key": whatever start or stop was cut
\* short, a handshake is answered under the root that was installed, until a
\* person takes a file away (LoadOrCreateCA, writeCA).
TrustIsKept ==
    trusted # None /\ ~tampered =>
       \A c \in Handshakes : shake[c].at = "served" => shake[c].leaf.root = trusted

\* The cache and its order have the same hosts, each once, and no more than fit,
\* also where handshakes for one host overlap and leaves expire (Leaf, store).
CacheIsOrdered ==
    root # None =>
       /\ ToSet(order) = {h \in Hosts : cached[h] # None}
       /\ IsInjective(order)
       /\ Len(order) <= MaxCached

\* The leaves a client is shown are those of the root it trusts, and those that
\* are kept are in order (internal/core/certgen/certgen.go).
LeavesAreSound == TrustIsKept /\ CacheIsOrdered
=============================================================================
