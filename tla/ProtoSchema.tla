----------------------------- MODULE ProtoSchema -----------------------------
(***************************************************************************)
(* internal/domain/protoschema: the files a person uploads to name the     *)
(* fields of gRPC traffic.  An upload reads the list, compiles against it  *)
(* and replaces, in transactions of its own; the descriptors of all of them*)
(* are merged into a registry that the log's decoding reads from a cache.  *)
(***************************************************************************)
EXTENDS Integers

CONSTANTS
    FileNames,
    SchemaProjects,
    Uploaders,   \* console operations that may be under way together
    Readers,     \* calls of Method, likewise
    MaxUploads,
    None

ProtoSchemaAssumption ==
    /\ MaxUploads \in Nat
    /\ None \notin SchemaProjects \cup Readers

VARIABLES
    opened,    \* the open project
    rows,      \* the bucket of each project: schemas, in the order of their ids
    uploads,   \* ids drawn, a version each
    upload,    \* operations under way
    registry,  \* regProj, regBuilt, registry
    lookup,    \* who holds Service.mu in files, and what it has listed
    overlapped \* history: a list was used that had changed meanwhile

protoVars == <<opened, rows, uploads, upload, registry, lookup, overlapped>>

\* A stored schema: the file, what it imports, and the descriptors it carries:
\* its own and a copy of every import, each by the upload it is of.
Schema(id, name, imports, carries) ==
    [id |-> id, name |-> name, imports |-> imports, carries |-> carries]

Unbuilt == [project |-> None, files |-> [f \in FileNames |-> None]]

\* An operation that has compiled nothing.
WithoutList(at, p) == [at |-> at, project |-> p, seen |-> {}, id |-> 0, name |-> None,
                       imports |-> {}, stale |-> FALSE]

Unused == WithoutList("idle", None)

Unlooked == [by |-> None, project |-> None, list |-> {}]

ProtoInit ==
    /\ opened \in SchemaProjects
    /\ rows = [p \in SchemaProjects |-> {}]
    /\ uploads = 0
    /\ upload = [u \in Uploaders |-> Unused]
    /\ registry = Unbuilt
    /\ lookup = Unlooked
    /\ overlapped = FALSE

OpenSchemas(p) ==
    /\ p # opened
    /\ opened' = p
    /\ UNCHANGED <<rows, uploads, upload, registry, lookup, overlapped>>

\* A write makes what others have listed of that project old.
Outdated(u, p) ==
    [v \in Uploaders |-> IF v # u /\ upload[v].project = p
                         THEN [upload[v] EXCEPT !.stale = TRUE] ELSE upload[v]]

-----------------------------------------------------------------------------
(* Upload and Delete.                                                      *)

First(S) == CHOOSE s \in S : \A t \in S : s.id <= t.id

Newest(S) == CHOOSE s \in S : \A t \in S : t.id <= s.id

Named(list, f) == {s \in list : s.name = f}

\* The sources a compilation finds: the upload's own, and for every other name
\* what the list has of it, the last one met.
Sources(list, name, imports) ==
    [f \in FileNames |-> IF f = name THEN imports
                         ELSE IF Named(list, f) = {} THEN None
                         ELSE Newest(Named(list, f)).imports]

\* The imports of the imports, and so on.
Reached(src, name) ==
    CHOOSE S \in SUBSET FileNames :
       /\ name \in S
       /\ \A f \in S : src[f] # None => src[f] \subseteq S
       /\ \A T \in SUBSET S : name \in T /\ T # S =>
             \E f \in T : src[f] # None /\ ~(src[f] \subseteq T)

\* Every import is there, and none leads back to its importer.
Compiles(src, name) ==
    /\ \A f \in Reached(src, name) : src[f] # None
    /\ \A f \in Reached(src, name), g \in FileNames :
          g \in src[f] => f \notin Reached(src, g)

UploadReads(u, name, imports) ==
    /\ upload[u].at = "idle" /\ uploads < MaxUploads
    /\ Compiles(Sources(rows[opened], name, imports), name)
    /\ uploads' = uploads + 1
    /\ upload' = [upload EXCEPT ![u] =
                     [at |-> "replace", project |-> opened, seen |-> rows[opened],
                      id |-> uploads', name |-> name, imports |-> imports, stale |-> FALSE]]
    /\ UNCHANGED <<opened, rows, registry, lookup, overlapped>>

\* compile's set: the version of each file that the list had.
Carried(u) ==
    LET r == upload[u]
        in == Reached(Sources(r.seen, r.name, r.imports), r.name)
    IN [f \in FileNames |-> IF f = r.name THEN r.id
                            ELSE IF f \in in THEN Newest(Named(r.seen, f)).id ELSE None]

\* Broken: the schema is added, and its earlier self stays.
UploadAdds(u) ==
    LET r == upload[u] IN
    /\ r.at = "replace"
    /\ rows' = [rows EXCEPT ![r.project] =
                   @ \cup {Schema(r.id, r.name, r.imports, Carried(u))}]
    /\ upload' = [Outdated(u, r.project) EXCEPT ![u] = [r EXCEPT !.at = "invalidate"]]
    /\ overlapped' = (overlapped \/ r.stale)
    /\ UNCHANGED <<opened, uploads, registry, lookup>>

\* Replace: the ids that had the name in the list, and the new one, at once.
UploadReplaces(u) ==
    LET r == upload[u]
        drop == {s.id : s \in Named(r.seen, r.name)}
        left == {s \in rows[r.project] : s.id \notin drop}
    IN
    /\ r.at = "replace"
    /\ rows' = [rows EXCEPT ![r.project] =
                   left \cup {Schema(r.id, r.name, r.imports, Carried(u))}]
    /\ upload' = [Outdated(u, r.project) EXCEPT ![u] = [r EXCEPT !.at = "invalidate"]]
    /\ overlapped' = (overlapped \/ r.stale)
    /\ UNCHANGED <<opened, uploads, registry, lookup>>

UploadFails(u) ==
    /\ upload[u].at = "replace"
    /\ upload' = [upload EXCEPT ![u] = Unused]
    /\ UNCHANGED <<opened, rows, uploads, registry, lookup, overlapped>>

DeleteSchema(u, id) ==
    /\ upload[u].at = "idle"
    /\ \E s \in rows[opened] : s.id = id
    /\ rows' = [rows EXCEPT ![opened] = {s \in @ : s.id # id}]
    /\ upload' = [Outdated(u, opened) EXCEPT
                     ![u] = WithoutList("invalidate", opened)]
    /\ UNCHANGED <<opened, uploads, registry, lookup, overlapped>>

\* Broken: the registry is dropped without its lock.
InvalidateUnlocked(u) ==
    /\ upload[u].at = "invalidate"
    /\ registry' = Unbuilt
    /\ upload' = [upload EXCEPT ![u] = Unused]
    /\ UNCHANGED <<opened, rows, uploads, lookup, overlapped>>

\* invalidate, under mu.
Invalidate(u) ==
    /\ upload[u].at = "invalidate" /\ lookup.by = None
    /\ registry' = Unbuilt
    /\ upload' = [upload EXCEPT ![u] = Unused]
    /\ UNCHANGED <<opened, rows, uploads, lookup, overlapped>>

-----------------------------------------------------------------------------
(* files, under mu: nothing to do when the project's registry is built.    *)

FilesList(r) ==
    /\ lookup.by = None /\ registry.project # opened
    /\ lookup' = [by |-> r, project |-> opened, list |-> rows[opened]]
    /\ UNCHANGED <<opened, rows, uploads, upload, registry, overlapped>>

\* "Files present in several sets are taken once": of the oldest that has it.
Merge(list) ==
    [f \in FileNames |->
        LET has == {s \in list : s.carries[f] # None}
        IN IF has = {} THEN None ELSE First(has).carries[f]]

FilesBuild ==
    /\ lookup.by # None
    /\ registry' = [project |-> lookup.project, files |-> Merge(lookup.list)]
    /\ lookup' = Unlooked
    /\ UNCHANGED <<opened, rows, uploads, upload, overlapped>>

\* The store cannot be read: nothing is cached.
FilesFails ==
    /\ lookup.by # None
    /\ lookup' = Unlooked
    /\ UNCHANGED <<opened, rows, uploads, upload, registry, overlapped>>

ProtoNext ==
    \/ \E p \in SchemaProjects : OpenSchemas(p)
    \/ \E u \in Uploaders :
          \/ \E name \in FileNames, imports \in SUBSET FileNames :
                UploadReads(u, name, imports)
          \/ UploadReplaces(u) \/ UploadFails(u) \/ Invalidate(u)
          \/ \E id \in 1 .. MaxUploads : DeleteSchema(u, id)
    \/ \E r \in Readers : FilesList(r)
    \/ FilesBuild \/ FilesFails

ProtoSpec == ProtoInit /\ [][ProtoNext]_protoVars

-----------------------------------------------------------------------------
(* Properties.                                                             *)

Schemas == [id : Nat, name : FileNames, imports : SUBSET FileNames,
            carries : [FileNames -> Nat \cup {None}]]

ProtoTypeOK ==
    /\ opened \in SchemaProjects
    /\ rows \in [SchemaProjects -> SUBSET Schemas]
    /\ uploads \in Nat
    /\ upload \in [Uploaders -> [at : {"idle", "replace", "invalidate"},
                                 project : SchemaProjects \cup {None},
                                 seen : SUBSET Schemas, id : Nat,
                                 name : FileNames \cup {None}, imports : SUBSET FileNames,
                                 stale : BOOLEAN]]
    /\ registry \in [project : SchemaProjects \cup {None},
                     files : [FileNames -> Nat \cup {None}]]
    /\ lookup \in [by : Readers \cup {None}, project : SchemaProjects \cup {None},
                   list : SUBSET Schemas]
    /\ overlapped \in BOOLEAN

Writing(p) == \E u \in Uploaders : upload[u].at = "invalidate" /\ upload[u].project = p

\* Messages are read with what is stored: the cached registry is the one the
\* rows of its project give, except while the writer of a row has yet to drop
\* it, also when the list for it was read before that write (files, invalidate).
RegistryIsFresh ==
    registry.project # None =>
       \/ Writing(registry.project)
       \/ registry.files = Merge(rows[registry.project])

\* "A file uploaded again replaces its earlier self": a project has one row of a
\* name, unless an upload was overtaken by another write (Upload).
OneSchemaOfAName ==
    overlapped \/ \A p \in SchemaProjects : \A s, t \in rows[p] : s.name = t.name => s = t

\* The same, of what it is read with: the registry has the file of the row that
\* bears its name.
ReplacementIsRead ==
    overlapped \/ registry.project = None \/ Writing(registry.project)
    \/ \A s \in rows[registry.project] : registry.files[s.name] = s.id

\* Messages are read with the schemas that are stored, one of a name.
SchemasAreCurrent == RegistryIsFresh /\ OneSchemaOfAName
=============================================================================
