-------------------------------- MODULE Files --------------------------------
(***************************************************************************)
(* Uploaded files (file-service) and the activities published for IATI     *)
(* (integration-service, iati/publish): a file on the disk and a row that  *)
(* points to it, and for IATI also an entry in a registry elsewhere.  The  *)
(* file is written before the row; it is deleted, and the registry is      *)
(* told, before the transaction commits.                                   *)
(***************************************************************************)
EXTENDS Integers, FiniteSets

CONSTANTS Objects,  \* ids of file_objects; keys are drawn with each upload
          Issues,   \* ids of iati_publications
          Callers,  \* requests that may be under way at the same time
          NoObject  \* "nothing"

VARIABLES
  object,    \* object[x]: "none", "stored" or "deleted" in file_objects
  disk,      \* objects and issues whose file is on the disk
  issue,     \* issue[x]: the status of x in iati_publications, or "none"
  registry,  \* issues that the registry has taken
  remote,    \* is a registry configured?
  torn,      \* objects whose deletion was rolled back after the file was gone
  calling,   \* calling[c]: how far the request c is
  handle,    \* handle[c]: the object or the issue it is about
  answer     \* answer[c]: the status that it will note for the issue

stores == <<object, disk, issue, registry, remote, torn>>
callers == <<calling, handle, answer>>

FilesInit ==
  /\ object = [x \in Objects |-> "none"] /\ issue = [x \in Issues |-> "none"]
  /\ disk = {} /\ registry = {} /\ torn = {}
  /\ remote = FALSE
  /\ calling = [c \in Callers |-> "idle"]
  /\ handle = [c \in Callers |-> NoObject]
  /\ answer = [c \in Callers |-> "none"]

-----------------------------------------------------------------------------
Fresh(x) == x \notin disk /\ \A c \in Callers : handle[c] # x

Go(c, step, x) ==
  /\ calling' = [calling EXCEPT ![c] = step]
  /\ handle' = [handle EXCEPT ![c] = x]
  /\ answer' = [answer EXCEPT ![c] = "none"]

Stop(c) == Go(c, "idle", NoObject)

\* IATI_REGISTRY_MODE and its token, read when the service starts.
Configure ==
  /\ \A c \in Callers : calling[c] = "idle"
  /\ remote' = ~ remote
  /\ UNCHANGED <<object, disk, issue, registry, torn, callers>>

\* POST file/objects: writeFile, and then the transaction.
WriteUpload(c, x) ==
  /\ calling[c] = "idle" /\ object[x] = "none" /\ Fresh(x)
  /\ disk' = disk \cup {x}
  /\ Go(c, "written", x)
  /\ UNCHANGED <<object, issue, registry, remote, torn>>

CommitUpload(c) ==
  /\ calling[c] = "written"
  /\ object' = [object EXCEPT ![handle[c]] = "stored"]
  /\ Stop(c)
  /\ UNCHANGED <<disk, issue, registry, remote, torn>>

\* DELETE file/objects/:id: UPDATE ... AND NOT is_deleted keeps the row locked.
MarkDeleted(c, x) ==
  /\ calling[c] = "idle" /\ object[x] = "stored"
  /\ \A d \in Callers : handle[d] # x
  /\ Go(c, "marked", x)
  /\ UNCHANGED stores

\* existsSync and unlink, whose failure is passed over.
Unlink(c, gone) ==
  /\ calling[c] = "marked"
  /\ disk' = IF gone THEN disk \ {handle[c]} ELSE disk
  /\ Go(c, "unlinked", handle[c])
  /\ UNCHANGED <<object, issue, registry, remote, torn>>

CommitDelete(c) ==
  /\ calling[c] = "unlinked"
  /\ object' = [object EXCEPT ![handle[c]] = "deleted"]
  /\ Stop(c)
  /\ UNCHANGED <<disk, issue, registry, remote, torn>>

-----------------------------------------------------------------------------
\* POST integrations/iati/publish: the artifact, and the row that says
\* published_local.
WriteIssue(c, x) ==
  /\ calling[c] = "idle" /\ issue[x] = "none" /\ Fresh(x)
  /\ disk' = disk \cup {x}
  /\ Go(c, "issued", x)
  /\ UNCHANGED <<object, issue, registry, remote, torn>>

\* POST to the registry; an answer that is lost (30 seconds) is a failure.
CallRegistry(c, taken, status) ==
  /\ calling[c] = "issued" /\ remote
  /\ status = "published_registry" => taken
  /\ registry' = IF taken THEN registry \cup {handle[c]} ELSE registry
  /\ calling' = [calling EXCEPT ![c] = "answered"]
  /\ answer' = [answer EXCEPT ![c] = status]
  /\ UNCHANGED <<object, disk, issue, remote, torn, handle>>

\* UPDATE the row, if the registry was called: the column takes 20 characters,
\* which published_local_registry_failed exceeds.  COMMIT.
CommitIssue(c) ==
  /\ \/ ~ remote /\ calling[c] = "issued"
     \/ calling[c] = "answered" /\ answer[c] = "published_registry"
  /\ issue' = [issue EXCEPT ![handle[c]] =
                 IF remote THEN answer[c] ELSE "published_local"]
  /\ Stop(c)
  /\ UNCHANGED <<object, disk, registry, remote, torn>>

\* An error, a status that is too long, a lost connection: ROLLBACK.  Files and
\* registry stay.
RollbackFiles(c) ==
  /\ calling[c] # "idle"
  /\ torn' = IF calling[c] = "unlinked" /\ handle[c] \notin disk
             THEN torn \cup {handle[c]} ELSE torn
  /\ Stop(c)
  /\ UNCHANGED <<object, disk, issue, registry, remote>>

FilesNext ==
  \/ Configure
  \/ \E c \in Callers :
       \/ \E x \in Objects : WriteUpload(c, x) \/ MarkDeleted(c, x)
       \/ \E gone \in BOOLEAN : Unlink(c, gone)
       \/ \E x \in Issues : WriteIssue(c, x)
       \/ \E taken \in BOOLEAN :
            \E status \in {"published_registry",
                           "published_local_registry_failed"} :
              CallRegistry(c, taken, status)
       \/ CommitUpload(c) \/ CommitDelete(c) \/ CommitIssue(c)
       \/ RollbackFiles(c)

-----------------------------------------------------------------------------
\* Type invariant.
FilesTypeOK ==
  /\ object \in [Objects -> {"none", "stored", "deleted"}]
  /\ disk \subseteq Objects \cup Issues
  /\ issue \in [Issues -> {"none", "published_local", "published_registry"}]
  /\ registry \subseteq Issues /\ remote \in BOOLEAN /\ torn \subseteq Objects
  /\ calling \in [Callers -> {"idle", "written", "marked", "unlinked", "issued",
                              "answered"}]
  /\ handle \in [Callers -> Objects \cup Issues \cup {NoObject}]
  /\ answer \in [Callers -> {"none", "published_registry",
                             "published_local_registry_failed"}]

(* A row that can be downloaded has its file, unless its deletion was      *)
(* rolled back after the file was gone, or is under way; an issue that was *)
(* published has its artifact, and one that says it is in the registry is. *)
(* The converse does not hold: a rollback leaves files without rows and    *)
(* registry entries that no row knows.                                     *)
FilesThere ==
  /\ \A x \in Objects :
       object[x] = "stored" /\ x \notin disk
         => x \in torn \/ \E c \in Callers : calling[c] = "unlinked" /\ handle[c] = x
  /\ \A x \in Issues :
       /\ issue[x] # "none" => x \in disk
       /\ issue[x] = "published_registry" => x \in registry
=============================================================================
