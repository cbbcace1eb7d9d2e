----------------------------- MODULE ProfileImages -----------------------------
(***************************************************************************)
(* An account's profile image (portal/images.go; portal/handler.go,        *)
(* UpdateProfileImage and DeleteProfileImage): files in a directory and    *)
(* the column users.profile_image_filename, written one after the other.   *)
(*                                                                         *)
(* Every upload gets a name that was never used (128 random bits), so      *)
(* accounts share no file and one account is enough: its owner may have    *)
(* several requests under way, from several browsers.                      *)
(***************************************************************************)
EXTENDS Naturals, FiniteSets

CONSTANTS
  Client,          \* the requests under way at once
  Name,            \* file names: a bound on the uploads
  NoName,          \* the empty file name
  MaxDisturbances  \* bound on overlaps and faults

ASSUME ImagesAssumption ==
  NoName \notin Name /\ IsFiniteSet(Client) /\ MaxDisturbances \in Nat

VARIABLES
  column,        \* profile_image_filename
  files,         \* the files under their final names
  temporaries,   \* the .upload- files, by the name their upload would take
  req,           \* what each request is doing
  given,         \* names that uploads have drawn
  doubted,       \* names whose UPDATE took effect but was reported as failed
  disturbances   \* overlapping requests, stops and failures so far

store == <<files, temporaries>>
vars == <<column, files, temporaries, req, given, doubted, disturbances>>

Phase == {"idle", "create", "rename", "update", "removeNew", "clear", "removeOld"}

\* A request: the file name its account had when RequireAuth read it, and the
\* name of its upload.
Request == [phase : Phase, old : Name \cup {NoName}, new : Name \cup {NoName}]

Idle == [phase |-> "idle", old |-> NoName, new |-> NoName]

Busy == {c \in Client : req[c].phase # "idle"}

End(c) == req' = [req EXCEPT ![c] = Idle]
Goto(c, ph) == req' = [req EXCEPT ![c].phase = ph]

\* Something happened that the files may show.
Disturb(n) ==
  /\ n > 0 => disturbances < MaxDisturbances
  /\ disturbances' = disturbances + n

Calm == UNCHANGED <<doubted, disturbances>>

-----------------------------------------------------------------------------
\* RequireAuth reads the account; the old name is the one it read.
Begin(c, ph) ==
  /\ req[c].phase = "idle"
  /\ req' = [req EXCEPT ![c] = [Idle EXCEPT !.phase = ph, !.old = column]]
  /\ Disturb(IF Busy = {} THEN 0 ELSE 1)
  /\ UNCHANGED <<column, files, temporaries, given, doubted>>

\* Slip: an image that cannot be stored goes unnoticed.
CreateTempUnchecked(c) ==
  /\ req[c].phase = "create"
  /\ \/ /\ Goto(c, "update")
        /\ UNCHANGED <<files, temporaries, given>>
     \/ \E n \in Name \ given :
          /\ req' = [req EXCEPT ![c].phase = "rename", ![c].new = n]
          /\ temporaries' = temporaries \cup {n}
          /\ given' = given \cup {n}
          /\ UNCHANGED files
  /\ UNCHANGED column
  /\ Calm

\* Save refuses the upload, or draws a name and creates the temporary file.
CreateTemp(c) ==
  /\ req[c].phase = "create"
  /\ \/ /\ End(c)
        /\ UNCHANGED <<files, temporaries, given>>
     \/ \E n \in Name \ given :
          /\ req' = [req EXCEPT ![c].phase = "rename", ![c].new = n]
          /\ temporaries' = temporaries \cup {n}
          /\ given' = given \cup {n}
          /\ UNCHANGED files
  /\ UNCHANGED column
  /\ Calm

\* Slip: only a renamed file is cleared away.
RenameUndeferred(c) ==
  /\ req[c].phase = "rename"
  /\ \/ /\ files' = files \cup {req[c].new}
        /\ temporaries' = temporaries \ {req[c].new}
        /\ Goto(c, "update")
     \/ /\ End(c)
        /\ UNCHANGED store
  /\ UNCHANGED <<column, given>>
  /\ Calm

\* Slip: the old file goes as soon as the new one is there.
RenameReplacing(c) ==
  /\ req[c].phase = "rename"
  /\ temporaries' = temporaries \ {req[c].new}
  /\ \/ files' = (files \ {req[c].old}) \cup {req[c].new} /\ Goto(c, "update")
     \/ UNCHANGED files /\ End(c)
  /\ UNCHANGED <<column, given>>
  /\ Calm

\* The image is encoded and renamed to its final name; if any of it fails, the
\* deferred function removes the temporary file, and ignores an error of that.
Rename(c) ==
  /\ req[c].phase = "rename"
  /\ \/ /\ files' = files \cup {req[c].new} /\ temporaries' = temporaries \ {req[c].new}
        /\ Goto(c, "update")
        /\ Calm
     \/ /\ temporaries' = temporaries \ {req[c].new} /\ UNCHANGED files
        /\ End(c)
        /\ Calm
     \/ /\ UNCHANGED store
        /\ End(c)
        /\ UNCHANGED doubted /\ Disturb(1)
  /\ UNCHANGED <<column, given>>

\* UPDATE users SET profile_image_filename: it succeeds, fails, or takes effect
\* while its answer is lost.  next and failed are where the handler goes on.
Write(c, name, next, failed) ==
  /\ \/ column' = name /\ next /\ Calm
     \/ UNCHANGED column /\ failed /\ Calm
     \/ /\ column' = name /\ failed
        /\ doubted' = doubted \cup ({name} \ {NoName})
        /\ Disturb(1)
  /\ UNCHANGED <<files, temporaries, given>>

\* UpdateProfileImage: a failed UPDATE takes the new file back.
UpdateColumn(c) ==
  /\ req[c].phase = "update"
  /\ Write(c, req[c].new, Goto(c, "removeOld"), Goto(c, "removeNew"))

\* DeleteProfileImage: a failed UPDATE leaves the file.
ClearColumn(c) ==
  /\ req[c].phase = "clear"
  /\ Write(c, NoName, Goto(c, "removeOld"), End(c))

\* ImageStore.Delete: an error is ignored, and no file has the empty name.
Delete(c, name) ==
  /\ \/ files' = files \ {name} /\ Calm
     \/ name \in files /\ UNCHANGED <<files, doubted>> /\ Disturb(1)
  /\ End(c)
  /\ UNCHANGED <<column, temporaries, given>>

RemoveOld(c) ==
  /\ req[c].phase = "removeOld"
  /\ Delete(c, req[c].old)

RemoveNew(c) ==
  /\ req[c].phase = "removeNew"
  /\ Delete(c, req[c].new)

\* The process stops; deferred functions do not run.
Crash ==
  /\ Busy # {}
  /\ req' = [c \in Client |-> Idle]
  /\ Disturb(Cardinality(Busy))
  /\ UNCHANGED <<column, files, temporaries, given, doubted>>

Init ==
  /\ column = NoName /\ files = {} /\ temporaries = {}
  /\ req = [c \in Client |-> Idle]
  /\ given = {} /\ doubted = {} /\ disturbances = 0

Next ==
  \/ \E c \in Client :
       \/ \E ph \in {"create", "clear"} : Begin(c, ph)
       \/ CreateTemp(c) \/ Rename(c) \/ UpdateColumn(c) \/ ClearColumn(c)
       \/ RemoveOld(c) \/ RemoveNew(c)
  \/ Crash

Spec == Init /\ [][Next]_vars

-----------------------------------------------------------------------------
(***************************************************************************)
(* Properties.                                                             *)
(***************************************************************************)

\* The column, the files and the requests have their types; a request that works
\* on its upload has one.
TypeOK ==
  /\ column \in Name \cup {NoName}
  /\ files \subseteq Name /\ temporaries \subseteq Name
  /\ given \subseteq Name /\ doubted \subseteq Name
  /\ req \in [Client -> Request]
  /\ disturbances \in Nat
  /\ \A c \in Client : req[c].phase \in {"rename", "update", "removeNew"} => req[c].new \in Name

\* The file that the column names is there, however uploads and deletions of one
\* account overlap and wherever the process stopped.  The exception is an UPDATE
\* that took effect though it was reported as failed: its file is taken back.
NamedFileExists == column # NoName => column \in files \cup doubted

\* Files that no request will remove any more and the column does not name.
Held == {req[c].new : c \in Busy} \cup {req[c].old : c \in Busy}
Leftovers == (files \ ({column} \cup Held)) \cup (temporaries \ Held)

\* One overlap of two requests, one stopped request or one failed call leaves
\* one file behind at most; without them nothing is left.
LeftoversBounded == Cardinality(Leftovers) <= disturbances
=============================================================================
