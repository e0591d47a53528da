------------------------------- MODULE Files --------------------------------
(***************************************************************************)
(* What the file layer promises its clients: a path leads to the filesystem*)
(* mounted under its prefix, an open file to the handle that was opened for*)
(* it and to no other, until it is closed.  No table, no slots, no buckets,*)
(* no indexes: a file number is any that no open file has.                 *)
(***************************************************************************)
EXTENDS Naturals

CONSTANTS Prefixes, Filesystems, Supports, Handles, NULL

VARIABLES
  mounts,    (* what is attached: a set of prefixes with a filesystem each *)
  opened,    (* the open files: number, handle and mount                   *)
  owner      (* the filesystem each handle is open in, or NULL             *)

vars == <<mounts, opened, owner>>

(* Not those of the standard streams, and in 15 bits.                      *)
FileNumbers == {n \in Nat : n > 3 /\ n < 32768}

Init ==
  /\ mounts = {}
  /\ opened = {}
  /\ owner = [h \in Handles |-> NULL]

(* A prefix has one filesystem, and there may be no room for another.      *)
Mount(prefix, fs) ==
  /\ \A m \in mounts : m.prefix # prefix
  /\ mounts' = mounts \cup {[prefix |-> prefix, fs |-> fs]}
  /\ UNCHANGED <<opened, owner>>

(* Clients unmount what nobody has a file in.                              *)
Unmount(m) ==
  /\ mounts' = mounts \ {m}
  /\ \A f \in opened : f.mount # m
  /\ UNCHANGED <<opened, owner>>

(* A filesystem opens a handle,                                            *)
Take(m, h) ==
  /\ owner[h] = NULL
  /\ "open" \in Supports[m.fs]
  /\ owner' = [owner EXCEPT ![h] = m.fs]
  /\ UNCHANGED mounts

(* for which the client gets a number that no other open file has,         *)
Open(m, h) ==
  /\ Take(m, h)
  /\ \E f \in opened' :
       /\ f = [fileno |-> f.fileno, handle |-> h, mount |-> m]
       /\ f.fileno \in FileNumbers
       /\ \A g \in opened : g.fileno # f.fileno
       /\ opened' = opened \cup {f}

(* or nothing: there was no room, or the file was for a stat or a truncate *)
(* in a filesystem without a close.                                        *)
Lose(m, h) ==
  /\ Take(m, h)
  /\ UNCHANGED opened

(* The handle that was opened for the file is closed, if its filesystem    *)
(* closes handles at all.                                                  *)
Close(f) ==
  /\ owner' = IF "close" \in Supports[f.mount.fs]
              THEN [owner EXCEPT ![f.handle] = NULL]
              ELSE owner
  /\ opened' = opened \ {f}
  /\ UNCHANGED mounts

Next ==
  \/ \E prefix \in Prefixes, fs \in Filesystems : Mount(prefix, fs)
  \/ \E m \in mounts :
       \/ Unmount(m)
       \/ \E h \in Handles : Open(m, h) \/ Lose(m, h)
  \/ \E f \in opened : Close(f)

Spec == Init /\ [][Next]_vars
=============================================================================
