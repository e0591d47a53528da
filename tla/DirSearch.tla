----------------------------- MODULE DirSearch ------------------------------
(***************************************************************************)
(* The calls of payload/system.c that take a path and keep no handle, on   *)
(* top of FileTable: dir_findfirst and dir_findnext, mkdir and unlink.  A  *)
(* search keeps its place in the caller's dir_t, in a form that only the   *)
(* filesystem which began it understands; yet each step of the search      *)
(* looks the filesystem up again, by the path.                             *)
(***************************************************************************)
EXTENDS FileTable

CONSTANT PathCalls     (* the callbacks of each filesystem for such calls  *)
ASSUME PathCallsAssumption ==
  PathCalls \in [Filesystems -> SUBSET {"findfirst", "findnext", "findnext2",
                                        "mkdir", "unlink"}]

VARIABLES
  searches,     (* external: the dir_t of clients, see Search              *)
  mounted       (* history: the filesystem under each prefix, as the       *)
                (* results of attach and detach have told the clients      *)

dirVars == <<vars, searches, mounted>>

(* A search that dir_findfirst has begun: for a path with this prefix, by  *)
(* the callback of this filesystem.                                        *)
Search == [prefix : Prefixes, fs : Filesystems]

DirTypeOK ==
  /\ TypeOK
  /\ searches \in SUBSET Search
  /\ mounted \in [Prefixes -> Filesystems \cup {NULL}]

DirInit ==
  /\ Init
  /\ searches = {}
  /\ mounted = [p \in Prefixes |-> NULL]

-----------------------------------------------------------------------------
(* attach returns 0 when it has found a place for the mapping.             *)
Attach(prefix, fs) ==
  /\ attach_filesystem(prefix, fs)
  /\ mounted' = IF filesystems' # filesystems
                THEN [mounted EXCEPT ![prefix] = fs] ELSE mounted
  /\ UNCHANGED searches

(* To detach only a filesystem that nobody searches is up to the client.   *)
Detach(prefix) ==
  /\ detach_filesystem(prefix)
  /\ DetachBusy \/ \A d \in searches : d.prefix # prefix
  /\ mounted' = [mounted EXCEPT ![prefix] = NULL]
  /\ UNCHANGED searches

(* The filesystem whose callback a call with a path reaches, if it has one.*)
ByName(prefix, names) ==
  {filesystems[i].fs : i \in {j \in Named(prefix) :
                                PathCalls[filesystems[j].fs] \cap names # {}}}

mkdir(prefix)  == ByName(prefix, {"mkdir"})
unlink(prefix) == ByName(prefix, {"unlink"})

(* No mapping, no callback, nothing found: -1; or the search has begun.    *)
dir_findfirst(prefix) ==
  /\ \/ searches' = searches
     \/ \E fs \in ByName(prefix, {"findfirst"}) :
          searches' = searches \cup {[prefix |-> prefix, fs |-> fs]}
  /\ UNCHANGED <<vars, mounted>>

(* An entry more; or the end, or an error, and the client is done with it. *)
dir_findnext(d) ==
  /\ \/ /\ ByName(d.prefix, {"findnext", "findnext2"}) # {}
        /\ searches' = searches
     \/ searches' = searches \ {d}
  /\ UNCHANGED <<vars, mounted>>

DirNext ==
  \/ \E prefix \in Prefixes :
       \/ \E fs \in Filesystems : Attach(prefix, fs)
       \/ Detach(prefix)
       \/ dir_findfirst(prefix)
       \/ open(prefix) /\ UNCHANGED <<searches, mounted>>
  \/ \E d \in searches : dir_findnext(d)
  \/ \E file \in files : close(file) /\ UNCHANGED <<searches, mounted>>

DirSpec == DirInit /\ [][DirNext]_dirVars

-----------------------------------------------------------------------------
(* A path leads to the filesystem that the clients have attached under its *)
(* prefix, and to none under a prefix that they have detached, through     *)
(* indexes that are freed and used again; and every step of a search, which*)
(* looks the filesystem up again, calls the one that began the search and  *)
(* that alone understands its dir_t.                                       *)
PathsResolve ==
  /\ \A prefix \in Prefixes :
       /\ {filesystems[i].fs : i \in Named(prefix)} = {mounted[prefix]} \ {NULL}
       /\ mkdir(prefix) \cup unlink(prefix) \subseteq {mounted[prefix]}
  /\ \A d \in searches :
       {filesystems[i].fs : i \in Named(d.prefix)} = {d.fs}
=============================================================================
