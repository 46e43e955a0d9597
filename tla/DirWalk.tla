------------------------------ MODULE DirWalk ------------------------------
(***************************************************************************)
(* The -w option of client.c: write_nfiles_from_dir walks a directory and  *)
(* sends the files it finds.  The directories still to be visited and the  *)
(* files found in one are ordered lists of paths; the walk makes each      *)
(* directory its working directory.  The order of readdir and the outcome  *)
(* of the calls to the server are choices.  The result of stat is not      *)
(* looked at: a link that leads nowhere is taken for whatever was found    *)
(* before it.                                                              *)
(***************************************************************************)
EXTENDS PrefixOrder

CONSTANTS
  Home,      \* where the client is started
  Dirs,      \* the directories there are, Home not among them
  Files,     \* the files in them
  Links      \* the symbolic links in them that lead nowhere

VARIABLES
  step,      \* "idle", "walk", "read" a directory, "send" its files, "done"
             \* or "failed"
  cwd,       \* the working directory
  curr,      \* currdir
  unread,    \* names in currdir that readdir has not returned
  filestat,  \* what the last stat that succeeded found
  left,      \* nfiles, and nfilepaths while a directory is read
  filelist, dirlist,
  sent       \* the files sent, and what became of them

walkVars == <<step, cwd, curr, unread, filestat, left, filelist, dirlist, sent>>

Entries == Dirs \cup Files \cup Links
Kinds == {"dir", "file", "other"}

Slash == 0
InDir(dir, name) == dir \o <<Slash>> \o name

\* A path that does not begin with "/" is looked up in the working directory.
Resolve(p) == IF Head(p) = Slash THEN p ELSE InDir(cwd, p)

Names(dir) == {name \in {SubSeq(p, Len(dir) + 2, Len(p)) : p \in Entries} :
                 /\ InDir(dir, name) \in Entries
                 /\ name # <<>> /\ \A i \in DOMAIN name : name[i] # Slash}

WalkInit ==
  /\ step = "idle" /\ cwd = Home /\ curr = <<>> /\ unread = {} /\ left = 0
  /\ filestat = "other" /\ filelist = <<>> /\ dirlist = <<>> /\ sent = <<>>

\* Without a dirname, <<>>, or for 0 files it returns at once.
write_nfiles_from_dir(dirname, nfiles) ==
  /\ step = "idle"
  /\ IF dirname = <<>> \/ nfiles = 0
     THEN step' = "done" /\ UNCHANGED <<left, dirlist>>
     ELSE step' = "walk" /\ left' = nfiles /\ dirlist' = lu_insert(<<>>, dirname)
  /\ UNCHANGED <<cwd, curr, unread, filestat, filelist, sent>>

\* The next directory; one that chdir does not find ends the walk.  filestat
\* is a local that nothing has written yet.
Enter ==
  /\ step = "walk" /\ dirlist # <<>> /\ left > 0
  /\ curr' = Head(dirlist)
  /\ LET dir == Resolve(Head(dirlist)) IN
       IF dir \in Dirs
       THEN /\ cwd' = dir /\ unread' = Names(dir) /\ step' = "read"
            /\ filestat' \in Kinds /\ UNCHANGED dirlist
       ELSE step' = "failed" /\ dirlist' = <<>> /\ UNCHANGED <<cwd, unread, filestat>>
  /\ UNCHANGED <<left, filelist, sent>>

\* What filestat holds after the stat of p.  One that fails leaves it as it
\* was, after another name or after "." or "..".
Stat(p) == CASE p \in Dirs  -> {"dir"}
             [] p \in Files -> {"file"}
             [] OTHER       -> {filestat, "dir"}

\* A name that readdir returns.
Found(name) ==
  /\ unread' = unread \ {name}
  /\ filestat' \in Stat(InDir(cwd, name))
  /\ \/ /\ filestat' = "dir"
        /\ dirlist' = lu_insert(dirlist, InDir(curr, name))
        /\ UNCHANGED <<left, filelist>>
     \/ /\ filestat' = "file"
        /\ filelist' = lu_insert(filelist, InDir(curr, name))
        /\ left' = left - 1 /\ UNCHANGED dirlist
     \/ /\ filestat' = "other"
        /\ UNCHANGED <<left, filelist, dirlist>>
  /\ UNCHANGED <<step, cwd, curr, sent>>

\* One turn of the loop over readdir.
ReadEntry == step = "read" /\ left > 0 /\ \E name \in unread : Found(name)

ReadEnd ==
  /\ step = "read" /\ (left = 0 \/ unread = {})
  /\ step' = "send" /\ unread' = {} /\ filestat' = "other"
  /\ UNCHANGED <<cwd, curr, left, filelist, dirlist, sent>>

\* One turn of the loop of write_files_list: a file that is not opened, or
\* not written, is left as it is and the next one follows.
SendFile(connected) ==
  /\ step = "send" /\ filelist # <<>>
  /\ \E how \in {"refused", "unreadable", "open", "closed"} :
       /\ ~connected => how = "refused"
       /\ how = "unreadable" => Resolve(Head(filelist)) \notin Files
       /\ how \in {"open", "closed"} => Resolve(Head(filelist)) \in Files
       /\ sent' = Append(sent, [path |-> Head(filelist), how |-> how])
  /\ filelist' = Tail(filelist)
  /\ UNCHANGED <<step, cwd, curr, unread, filestat, left, dirlist>>

Leave ==
  /\ step = "send" /\ filelist = <<>>
  /\ step' = "walk" /\ dirlist' = lu_remove(dirlist, curr)
  /\ UNCHANGED <<cwd, curr, unread, filestat, left, filelist, sent>>

\* Mutant: || in the test of the loop.
FinishBoth ==
  /\ step = "walk" /\ dirlist = <<>> /\ left <= 0
  /\ step' = "done" /\ dirlist' = <<>>
  /\ UNCHANGED <<cwd, curr, unread, filestat, left, filelist, sent>>

Finish ==
  /\ step = "walk" /\ (dirlist = <<>> \/ left <= 0)
  /\ step' = "done" /\ dirlist' = <<>>
  /\ UNCHANGED <<cwd, curr, unread, filestat, left, filelist, sent>>

WalkTypeOK ==
  /\ step \in {"idle", "walk", "read", "send", "done", "failed"}
  /\ cwd \in Dirs \cup {Home} /\ left \in Int /\ (step = "read" => left >= 0)
  /\ \A name \in unread : InDir(cwd, name) \in Entries
  /\ filestat \in Kinds
  /\ \A i \in DOMAIN filelist : filelist[i] \in Seq(Nat)
  /\ \A i \in DOMAIN dirlist : dirlist[i] \in Seq(Nat)
=============================================================================
