------------------------------- MODULE Terminal --------------------------------
(***************************************************************************)
(* crates/kernel: command lines of terminal sessions, over the document    *)
(* store that the requests of the api use at the same time.                *)
(*                                                                         *)
(* h[p] is a command line that is being executed.  Every command makes its *)
(* own calls of the store: a copy, a touch, and a redirection that appends *)
(* read a whole file, and later save a whole file.  A session has one      *)
(* working directory, which all of its commands share, and every path is   *)
(* resolved against it when it is used.                                    *)
(*                                                                         *)
(* A line is a sequence of tokens: a word, which is taken as the name of a *)
(* command or as a path, or one of "|", ">" and ">>".  What a command      *)
(* prints is a sequence too.                                               *)
(***************************************************************************)
EXTENDS DocsTrees

CONSTANTS
  Proc,      \* command lines that may run at the same time
  Session,   \* keys of active_cwds
  Line,      \* command lines that clients send
  Piece,     \* what texts consist of
  Upload,    \* contents of files that clients send
  MaxOps,    \* bound: command lines and requests
  None

ASSUME TerminalAssumption ==
  /\ MaxOps \in Nat /\ None \notin Session \cup Seq(Name)
  /\ Upload \subseteq Seq(Piece) /\ {"newline", "error", "path"} \subseteq Piece

VARIABLES
  cwd,    \* active_cwds: the working directory of a session, None before it is used
  h,      \* command lines in execution
  ops     \* command lines and requests so far

vars == <<trees, cwd, h, ops>>

Home(u) == <<"User", u>>
Blank == <<"newline">>
Error == <<"error">>

Idle == [pc |-> "idle", user |-> None, session |-> None, line |-> <<>>,
         path |-> <<>>, out |-> <<>>, old |-> None]

TermInit ==
  /\ Init
  /\ cwd = [s \in Session |-> None]
  /\ h = [p \in Proc |-> Idle]
  /\ ops = 0

-----------------------------------------------------------------------------
(* Lines *)

\* The pipeline: what stands between the bars, if anything does.
Cut(segments, token) ==
  IF token.op = "|" THEN Append(segments, <<>>)
  ELSE Append(Front(segments), Append(Last(segments), token))
Pipeline(tokens) == SelectSeq(FoldLeft(Cut, <<<<>>>>, tokens), LAMBDA s : s # <<>>)

\* A segment: its words, and where its output goes.  The token behind ">" is the
\* target whatever it is, and of several the last counts.
Scan(s, token) ==
  IF s.due # None THEN [s EXCEPT !.target = token, !.append = s.due = ">>", !.due = None]
  ELSE IF token.op = "word" THEN [s EXCEPT !.words = Append(@, token)]
  ELSE [s EXCEPT !.due = token.op]
Segment(tokens) ==
  FoldLeft(Scan, [words |-> <<>>, target |-> None, append |-> FALSE, due |-> None], tokens)
Whole(segment) == segment.due = None
Segments(tokens) == [k \in 1 .. Len(Pipeline(tokens)) |-> Segment(Pipeline(tokens)[k])]

\* What the scripts and requests go on with: words that name paths, and for each command
\* as many as it takes (with fewer, it prints an error and does nothing).
Word == [op : STRING, cmd : STRING, path : [from : {"root", "home", "cwd"}, tail : Seq(Name)]]
Arity(cmd) ==
  IF cmd \in {"cp", "mv"} THEN 2 ELSE IF cmd \in {"cat", "rm", "touch", "chdir"} THEN 1 ELSE 0
Parsed ==
  {s \in [words : Seq(Word), target : {None} \cup Word, append : BOOLEAN, due : {None, ">", ">>"}] :
     s.words # <<>> => Len(s.words) > Arity(Head(s.words).cmd)}

ASSUME LineAssumption == \A line \in Line : Segments(line) \in Seq(Parsed)

-----------------------------------------------------------------------------
(* Paths of the shell *)

\* resolve_path: an argument is taken from the root, from home or from the
\* working directory; ".." steps back.
Step(at, name) ==
  IF name # ".." THEN Append(at, name) ELSE IF at = <<>> THEN at ELSE Front(at)
ResolvePath(u, dir, arg) ==
  LET base == [root |-> <<>>, home |-> Home(u), cwd |-> dir]
      names == base[arg.from] \o arg.tail
      at[k \in 0 .. Len(names)] == IF k = 0 THEN <<>> ELSE Step(at[k - 1], names[k])
  IN  at[Len(names)]

\* Where a redirection stores: /AppData and /System as they are, below one's home
\* with the home cut off (trim_start_matches: as often as it repeats), no other.
HomesCut(u, v) ==
  Cardinality({k \in 1 .. Len(v) \div 2 :
                 \A i \in 1 .. k : v[2 * i - 1] = "User" /\ v[2 * i] = u})
StoredPath(u, v) ==
  IF Top(v, "AppData") \/ Top(v, "System") THEN v
  ELSE SubSeq(v, 2 * HomesCut(u, v) + 1, Len(v))
MayRedirect(u, v) == Top(v, "AppData") \/ Top(v, "System") \/ HomesCut(u, v) > 0

Seg(p) == Head(h[p].line)
Command(p) == Head(Seg(p).words).cmd
At(p, pc, cmds) ==
  h[p].pc = pc /\ Whole(Seg(p)) /\ Seg(p).words # <<>> /\ Command(p) \in cmds
Target(p) == Seg(p).target

\* The path a word of the line names, now; its first argument, its second.
Reach(p, word) == ResolvePath(h[p].user, cwd[h[p].session], word.path)
Arg1(p) == Reach(p, Seg(p).words[2])
Arg2(p) == Reach(p, Seg(p).words[3])
Held(q) == IF q \in DOMAIN files THEN files[q] ELSE None

\* get_file_path asks the database whether u may use an app: that may fail, and to
\* those who drop the error a file is then like one that may not be found.
AsksGrant(u, v) == u # "admin" /\ Top(v, "AppData") /\ Len(v) > 1
Looked(u, v) == {ReadPlace(u, v)} \cup (IF AsksGrant(u, v) THEN {NoPlace} ELSE {})

\* History of an append: what the file holds, and whether it is read.
Seen(u, v, read) ==
  LET q == SavePlace(u, v)
  IN  IF q \in DOMAIN files THEN [held |-> files[q], read |-> read] ELSE None

-----------------------------------------------------------------------------
(* Steps of a command line *)

\* execute_command: the session keeps its directory, or starts at home.
Enter(s, u) == cwd' = IF cwd[s] = None THEN [cwd EXCEPT ![s] = Home(u)] ELSE cwd

\* A line without a segment is answered at once.
Start(p, u, s, line) ==
  /\ h[p].pc = "idle" /\ ops < MaxOps
  /\ h' = IF Segments(line) = <<>> THEN h
          ELSE [h EXCEPT ![p] = [Idle EXCEPT !.pc = "run", !.user = u,
                                             !.session = s, !.line = Segments(line)]]
  /\ Enter(s, u)
  /\ ops' = ops + 1
  /\ UNCHANGED trees

\* complete_command: the candidates change nothing, but the session begins.
Complete(u, s) ==
  /\ cwd[s] = None
  /\ cwd' = [cwd EXCEPT ![s] = Home(u)]
  /\ UNCHANGED <<trees, h, ops>>

\* The command of the segment has ended with code 0 and printed text: scripts
\* catch their errors and print them.
Prints(p, text) == h' = [h EXCEPT ![p].pc = "output", ![p].out = text]

\* Mutant: one segment too many.
AdvanceOnce(p) ==
  h' = [h EXCEPT ![p] =
          IF Len(h[p].line) = 0 THEN Idle
          ELSE [h[p] EXCEPT !.pc = "run", !.line = Tail(h[p].line), !.out = <<>>,
                            !.path = <<>>, !.old = None]]

\* On to the next segment; after the last one the line is answered.
Advance(p) ==
  h' = [h EXCEPT ![p] =
          IF Len(h[p].line) = 1 THEN Idle
          ELSE [h[p] EXCEPT !.pc = "run", !.line = Tail(h[p].line), !.out = <<>>,
                            !.path = <<>>, !.old = None]]

\* A code other than 0 ends the whole line.
Answer(p) == h' = [h EXCEPT ![p] = Idle]

\* A redirection without a target is found when its segment is reached, and the
\* segments before it have run; one without a command is passed over.
Malformed(p) ==
  h[p].pc = "run" /\ ~Whole(Seg(p)) /\ Answer(p) /\ UNCHANGED <<trees, cwd, ops>>
Bare(p) ==
  /\ h[p].pc = "run" /\ Whole(Seg(p)) /\ Seg(p).words = <<>>
  /\ Advance(p) /\ UNCHANGED <<trees, cwd, ops>>

Unknown(p) ==
  At(p, "run", {"unknown"}) /\ Answer(p) /\ UNCHANGED <<trees, cwd, ops>>

\* echo: its arguments are looked for in sys.args, where they never are.
Echo(p) ==
  At(p, "run", {"echo"}) /\ Prints(p, Blank) /\ UNCHANGED <<trees, cwd, ops>>

\* cd goes home, whatever its argument; the script js sys.process.chdir(..) goes
\* anywhere, as no directory is looked up.
ChangeDir(p) ==
  /\ At(p, "run", {"cd", "chdir"})
  /\ cwd' = [cwd EXCEPT ![h[p].session] =
               IF Command(p) = "cd" THEN Home(h[p].user) ELSE Arg1(p)]
  /\ Prints(p, <<"path">>)
  /\ UNCHANGED <<trees, ops>>

\* sys.fs.readFile, which fails without a file and may fail with one.
Cat(p) ==
  /\ At(p, "run", {"cat"})
  /\ LET q == ReadPlace(h[p].user, Arg1(p))
     IN  \/ q \in DOMAIN files /\ Prints(p, files[q] \o Blank)
         \/ Prints(p, Error)
  /\ UNCHANGED <<trees, cwd, ops>>

\* mv: sys.fs.rename
Mv(p) ==
  /\ At(p, "run", {"mv"})
  /\ LET u == h[p].user
         f == Arg1(p)
         t == Arg2(p)
     IN  \/ MoveApp(u, f, t) /\ Prints(p, <<>>)
         \/ MoveOwn(u, f, t) /\ Prints(p, IF Clash(OwnerOf(f), f, t) THEN Error ELSE <<>>)
         \/ Restore(u, f, t) /\ Prints(p, <<>>)
         \/ /\ ~CanMoveApp(u, f, t) /\ ~CanMoveOwn(u, f, t) /\ ~CanRestore(u, f, t)
            /\ Prints(p, Error) /\ UNCHANGED trees
  /\ UNCHANGED <<cwd, ops>>

\* rm: sys.fs.delete
Rm(p) ==
  /\ At(p, "run", {"rm"})
  /\ LET u == h[p].user
         v == Arg1(p)
     IN  \/ DeleteApp(u, v) /\ Prints(p, <<>>)
         \/ DeleteOwn(u, v) /\ Prints(p, <<>>)
         \/ DeleteTrash(u, v) /\ Prints(p, <<>>)
         \/ /\ ~CanDeleteApp(u, v) /\ ~CanDeleteOwn(u, v) /\ ~CanDeleteTrash(v)
            /\ Prints(p, Error) /\ UNCHANGED trees
  /\ UNCHANGED <<cwd, ops>>

\* cp: sys.fs.readFile of the source.
CopyRead(p) ==
  /\ At(p, "run", {"cp"})
  /\ LET q == ReadPlace(h[p].user, Arg1(p))
     IN  \/ q \in DOMAIN files /\ h' = [h EXCEPT ![p].pc = "target", ![p].out = files[q]]
         \/ Prints(p, Error)
  /\ UNCHANGED <<trees, cwd, ops>>

\* The target is resolved by writeFile, when the source has been read.
CopyTarget(p) ==
  /\ At(p, "target", {"cp"})
  /\ h' = [h EXCEPT ![p].pc = "write", ![p].path = Arg2(p)]
  /\ UNCHANGED <<trees, cwd, ops>>

\* touch: writeFile of nothing, appending: the file is copied first.  One that may
\* not be found, or whose lookup fails, counts as new; one that is not there, or
\* cannot be copied, is an error.
TouchRead(p) ==
  /\ At(p, "run", {"touch"})
  /\ LET u == h[p].user
         v == Arg1(p)
     IN  \/ \E q \in Looked(u, v) :
              /\ q = NoPlace \/ q \in DOMAIN files
              /\ h' = [h EXCEPT ![p].pc = "write", ![p].path = v,
                               ![p].out = IF q = NoPlace THEN <<>> ELSE files[q],
                               ![p].old = Seen(u, v, q = ReadPlace(u, v))]
         \/ ReadPlace(u, v) # NoPlace /\ Prints(p, Error)
  /\ UNCHANGED <<trees, cwd, ops>>

\* Not refused.
CanSave(p) == h[p].path # <<>> /\ SavePlace(h[p].user, h[p].path) # NoPlace

\* writeFile: save_file_from_path, of what was read and nothing more.
WriteFile(p) ==
  /\ At(p, "write", {"cp", "touch"})
  /\ \/ CanSave(p) /\ SaveFile(h[p].user, h[p].path, h[p].out) /\ Prints(p, <<>>)
     \/ ~CanSave(p) /\ Prints(p, Error) /\ UNCHANGED trees
  /\ UNCHANGED <<cwd, ops>>

\* The output of a segment: answered, refused, or read for appending and saved.
Output(p) ==
  /\ h[p].pc = "output" /\ Target(p) = None
  /\ Advance(p) /\ UNCHANGED <<trees, cwd, ops>>

Refuse(p) ==
  /\ h[p].pc = "output" /\ Target(p) # None
  /\ ~MayRedirect(h[p].user, Reach(p, Target(p)))
  /\ Answer(p) /\ UNCHANGED <<trees, cwd, ops>>

\* Mutant: >> forgets to read.
RedirectAfresh(p) ==
  /\ h[p].pc = "output" /\ Target(p) # None
  /\ MayRedirect(h[p].user, Reach(p, Target(p)))
  /\ LET u == h[p].user
         v == StoredPath(u, Reach(p, Target(p)))
     IN  h' = [h EXCEPT ![p].pc = "save", ![p].path = v,
                 ![p].old = IF Seg(p).append /\ v # <<>> THEN Seen(u, v, TRUE) ELSE None]
  /\ UNCHANGED <<trees, cwd, ops>>

\* What >> cannot find or read, it writes anew: every error is dropped.
Redirect(p) ==
  /\ h[p].pc = "output" /\ Target(p) # None
  /\ MayRedirect(h[p].user, Reach(p, Target(p)))
  /\ LET u == h[p].user
         v == StoredPath(u, Reach(p, Target(p)))
         q == IF v = <<>> THEN NoPlace ELSE ReadPlace(u, v)
     IN  \E read \in BOOLEAN :
           h' = [h EXCEPT ![p].pc = "save", ![p].path = v,
                   ![p].out = IF Seg(p).append /\ read /\ q \in DOMAIN files THEN files[q] \o @ ELSE @,
                   ![p].old = IF Seg(p).append /\ v # <<>> THEN Seen(u, v, read) ELSE None]
  /\ UNCHANGED <<trees, cwd, ops>>

SaveOutput(p) ==
  /\ h[p].pc = "save"
  /\ \/ CanSave(p) /\ SaveFile(h[p].user, h[p].path, h[p].out) /\ Advance(p)
     \/ ~CanSave(p) /\ Answer(p) /\ UNCHANGED trees
  /\ UNCHANGED <<cwd, ops>>

-----------------------------------------------------------------------------
(* Requests of the api, and the purger *)

\* The paths below /Trash that lead to something, if it is one's own.
Trashed == {<<"Trash">> \o Append(r.dir, r.name) : r \in trash}

Requested == ops < MaxOps /\ ops' = ops + 1 /\ UNCHANGED <<cwd, h>>

Request(u) ==
  /\ Requested
  /\ \/ \E v \in Paths, c \in Upload : SaveFile(u, v, c)
     \/ \E f, t \in Paths : MoveApp(u, f, t) \/ MoveOwn(u, f, t)
     \/ \E v \in Paths : DeleteApp(u, v) \/ DeleteOwn(u, v)
     \/ \E v \in Trashed, t \in Paths : Restore(u, v, t)
     \/ \E v \in Trashed : DeleteTrash(u, v)

Expire == \E r \in trash : Purge(r) /\ UNCHANGED <<cwd, h, ops>>

StepOf(p) ==
  \/ Malformed(p) \/ Bare(p) \/ Unknown(p) \/ Echo(p) \/ ChangeDir(p) \/ Cat(p) \/ Mv(p) \/ Rm(p)
  \/ CopyRead(p) \/ CopyTarget(p) \/ TouchRead(p) \/ WriteFile(p)
  \/ Output(p) \/ Refuse(p) \/ Redirect(p) \/ SaveOutput(p)

TermNext ==
  \/ \E p \in Proc, u \in User, s \in Session, line \in Line : Start(p, u, s, line)
  \/ \E u \in User, s \in Session : Complete(u, s)
  \/ \E p \in Proc : StepOf(p)
  \/ \E u \in User : Request(u)
  \/ Expire

TermSpec == TermInit /\ [][TermNext]_vars

-----------------------------------------------------------------------------
(* Properties *)

\* Types: the trees, the sessions, and the lines in execution.
TypeOK ==
  /\ TreesOK
  /\ ops \in 0 .. MaxOps
  /\ \A p \in Proc : h[p] = Idle \/
       /\ h[p].pc \in {"run", "target", "write", "output", "save"}
       /\ h[p].user \in User /\ h[p].line # <<>> /\ cwd[h[p].session] # None

\* p saves h[p].path in this step, and is not refused.
Saves(p) == (WriteFile(p) \/ SaveOutput(p)) /\ CanSave(p)

\* What a command has saved without an error can be read back under the same path
\* by the user who saved it, and is listed there: save_file finds the place from
\* the directory and its owner, get_file_path from the file and the user.  (Not so
\* for a file right below /AppData, which get_file_path takes for an app.)
WritesAreSeen ==
  [][\A p \in Proc : \A u \in {h[p].user}, v \in {h[p].path} :
       Saves(p) /\ Len(v) > 2 =>
         /\ Held(ReadPlace(u, v))' = h[p].out
         /\ Access(u, "file-manager") => Last(v) \in Listing(u, Parent(v))']_vars

\* touch and >> read a whole file and write a whole file: if it is still what it was
\* when it was read, nothing of it is lost, unless its read failed.  That loses a file
\* to >> whatever failed, but to touch only where a grant is asked for: in the tree of
\* a user, and for admin everywhere, touch keeps the file or ends with an error.
\* (With the same exception.)
MayLose(p) == ~h[p].old.read /\ (h[p].pc = "save" \/ AsksGrant(h[p].user, h[p].path))
AppendKeeps ==
  [][\A p \in Proc : \A q \in {SavePlace(h[p].user, h[p].path)} :
       Saves(p) /\ Len(h[p].path) > 2 /\ h[p].old # None =>
         (Held(q) = h[p].old.held /\ ~MayLose(p) => IsPrefix(h[p].old.held, Held(q)'))]_vars
=============================================================================
