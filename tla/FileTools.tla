----------------------------- MODULE FileTools -----------------------------
(***************************************************************************)
(* The filesystem tools (crates/fs: common.rs, tool.rs, write.rs,          *)
(* list.rs) over a directory tree in which other processes rename, link    *)
(* and unlink while a call runs.                                           *)
(*                                                                         *)
(* A call names root/x/f, or the directory root/x.  `at` says what each    *)
(* directory path is now (a directory, a link to another path, nothing),   *)
(* `leaf` what the name f is in each directory.  Directories and files are *)
(* inodes: a handle keeps its inode wherever the names go.  Only the paths *)
(* of FtInside lie in the tools' root.                                     *)
(***************************************************************************)
EXTENDS Naturals, Sequences, FiniteSets

CONSTANTS FtNone,        \* nothing there
          FtPaths,       \* directory paths, of which the calls name FtRequested
          FtInside,      \* the paths under the root
          FtRequested,
          FtScenes,      \* [at, leaf, files: their initial values, tasks: the tool of each call]
          FtForms,       \* the forms of a requested path: "plain" and refused ones
          FtMaxBytes,    \* max_bytes of reads and writes
          FtLength,      \* the length of what each writer writes
          FtMaxMoves     \* bound: what other processes do

VARIABLES ftAt,      \* path -> [kind, to]
          ftLeaf,    \* directory -> [kind, to], the name f in it
          ftFiles,   \* file -> [text, links]
          ftCall,    \* call -> what its caller and its thread know
          ftNamed,   \* history: <<directory, file>>, the file has had the name f there
          ftRooted,  \* history: directories that have been under the root
          ftLone,    \* history: <<call, file>>, a writer had it open while it had one name or none
          ftMoves

ftTree == <<ftAt, ftLeaf, ftFiles, ftNamed, ftRooted, ftLone, ftMoves>>
ftVars == <<ftTree, ftCall>>

(* A byte is told by where it came from: it was there before, a file that  *)
(* was made longer is filled up with it, or it is the writer's of its name. *)
Letters == {"o", "nul"} \cup DOMAIN ftCall

Dirs == DOMAIN ftLeaf
Absent_ == [kind |-> "none", to |-> FtNone]

(* Where a directory is now: the path that names it.                       *)
UnderRoot(d) == \E p \in FtInside : ftAt[p] = [kind |-> "dir", to |-> d]

(* canonicalize() of a directory path: links are followed to the real      *)
(* path, which names a directory at this moment.                           *)
Canonical(p) ==
  CASE ftAt[p].kind = "dir" -> p
    [] ftAt[p].kind = "link" -> IF ftAt[ftAt[p].to].kind = "dir" THEN ftAt[p].to ELSE FtNone
    [] ftAt[p].kind = "none" -> FtNone

(* The directory a path opens when links in it are followed.               *)
Followed(p) == IF Canonical(p) = FtNone THEN FtNone ELSE ftAt[Canonical(p)].to

(* validate_relative(): plain segments only; an empty path is a directory's *)
(* way to say the root.                                                    *)
validate_relative(tool, form) == form = "plain" \/ (tool = "list" /\ form = "empty")

(* confine(): the canonical path lies under the root.                      *)
confine(p) == p # FtNone /\ p \in FtInside

(* resolve_within(), resolve_parent_within() and resolve_dir_within(): the *)
(* canonical directory a call's path leads to, or nothing.  A read follows *)
(* the last component too, and needs it to exist.                          *)
resolve(tool) ==
  LET p == Canonical(FtRequested)
      leaf == ftLeaf[Followed(FtRequested)]
      final == IF tool # "read" THEN p
               ELSE CASE leaf.kind = "link" -> Canonical(leaf.to)
                      [] leaf.kind = "none" -> FtNone
                      [] leaf.kind \notin {"link", "none"} -> p
  IN  IF p = FtNone \/ final = FtNone THEN FtNone
      ELSE IF confine(final) THEN final ELSE FtNone

Changed(call, change) ==
  [x \in DOMAIN call |-> IF x \in DOMAIN change THEN change[x] ELSE call[x]]

Step(c, change) == ftCall' = [ftCall EXCEPT ![c] = Changed(ftCall[c], change)]
Fails(c) == Step(c, [thread |-> "done", result |-> "refused"])

-----------------------------------------------------------------------------
(* planned_resources(): the claim the policy is asked about.  It is        *)
(* computed from the names as they are now, and nothing is kept of it.     *)
planned_resources(c) ==
  /\ ftCall[c].answer = FtNone /\ ftCall[c].thread = "unasked"
  /\ IF validate_relative(ftCall[c].tool, ftCall[c].form)
        /\ (ftCall[c].form = "empty" \/ resolve(ftCall[c].tool) # FtNone)
       THEN Step(c, [thread |-> "planned"])
       ELSE Step(c, [thread |-> "done", answer |-> "refused"])
  /\ UNCHANGED ftTree

(* invoke(): a call that is already cancelled or out of time does nothing  *)
(* at all, except that a read looks only once its thread runs; otherwise a *)
(* thread is started, which nothing stops any more.                        *)
invoke(c) ==
  /\ ftCall[c].thread = "planned"
  /\ \E late \in BOOLEAN :
       IF late /\ ftCall[c].tool # "read"
         THEN Step(c, [thread |-> "done", answer |-> "gave_up"])
         ELSE Step(c, [thread |-> "resolve", answer |-> IF late THEN "gave_up" ELSE FtNone])
  /\ UNCHANGED ftTree

(* The caller stops waiting: cancelled(), or sleep(budget).                *)
give_up(c) ==
  /\ ftCall[c].thread \notin {"unasked", "planned"} /\ ftCall[c].answer = FtNone
  /\ Step(c, [answer |-> "gave_up"])
  /\ UNCHANGED ftTree

(* The thread resolves the path a second time, from nothing.  Content over *)
(* the limit is refused before that.                                       *)
resolve_again(c) ==
  /\ ftCall[c].thread = "resolve"
  /\ CASE ftCall[c].tool = "write" /\ FtLength[c] > FtMaxBytes -> Step(c, [thread |-> "done", result |-> "too_large"])
       [] ftCall[c].tool = "list" /\ ftCall[c].form = "empty" ->
            Step(c, [thread |-> "done", result |-> "listed",
                     got |-> {p \in FtInside : ftAt[p].kind # "none"}])
       [] OTHER -> IF resolve(ftCall[c].tool) = FtNone THEN Fails(c)
                   ELSE Step(c, [thread |-> "open", path |-> resolve(ftCall[c].tool)])
  /\ UNCHANGED ftTree

(* open_dir_handle() and the first half of create_within(): the directory  *)
(* by its canonical path, which must not have become a link.  A read opens *)
(* the file by its path: a link in an intermediate component is followed,  *)
(* one in the last is not, and a pipe without a writer blocks for good.    *)
open_path(c) ==
  /\ ftCall[c].thread = "open"
  /\ LET p == ftCall[c].path
         d == Followed(p)
     IN  CASE ftCall[c].tool # "read" ->
                IF ftAt[p].kind = "dir"
                  THEN Step(c, [thread |-> "verify_dir", dir |-> ftAt[p].to])
                  ELSE Fails(c)
           [] ftCall[c].tool = "read" ->
                IF d = FtNone THEN Fails(c)
                ELSE CASE ftLeaf[d].kind = "file" ->
                            Step(c, [thread |-> "verify_file", dir |-> d, file |-> ftLeaf[d].to])
                       [] ftLeaf[d].kind = "fifo" -> Step(c, [thread |-> "blocked"])
                       [] ftLeaf[d].kind \notin {"file", "fifo"} -> Fails(c)
  /\ UNCHANGED ftTree

(* verify_handle_within() of a directory handle; what follows goes through *)
(* that handle and no longer through names.                                *)
verify_directory(c) ==
  /\ ftCall[c].thread = "verify_dir"
  /\ IF UnderRoot(ftCall[c].dir)
       THEN Step(c, [thread |-> IF ftCall[c].tool = "write" THEN "openat" ELSE "scan"])
       ELSE Fails(c)
  /\ UNCHANGED ftTree

(* read_dir_entries() and build_outcome(), then authorize_entry() for each *)
(* entry: a refused one is left out, and does not fail the call.           *)
scan(c) ==
  /\ ftCall[c].thread = "scan"
  /\ \E allowed \in BOOLEAN :
       Step(c, [thread |-> "done", result |-> "listed",
                got |-> IF allowed /\ ftLeaf[ftCall[c].dir].kind # "none" THEN {"f"} ELSE {}])
  /\ UNCHANGED ftTree

(* What the writers have open and has one name or none.                    *)
OpenAlone(calls, files) ==
  {<<c, calls[c].file>> : c \in {d \in DOMAIN calls :
     /\ calls[d].tool = "write" /\ calls[d].file # FtNone
     /\ files[calls[d].file].links <= 1}}

(* openat(O_CREAT | O_NOFOLLOW | O_NONBLOCK): an absent file is created, a *)
(* link, a directory or a pipe is refused.  The file a call creates has    *)
(* that call's name.                                                       *)
open_at(c) ==
  /\ ftCall[c].thread = "openat"
  /\ LET d == ftCall[c].dir
         leaf == ftLeaf[d]
     IN  CASE leaf.kind = "none" ->
                /\ ftLeaf' = [ftLeaf EXCEPT ![d] = [kind |-> "file", to |-> c]]
                /\ ftFiles' = [f \in DOMAIN ftFiles \cup {c} |->
                                IF f \in DOMAIN ftFiles THEN ftFiles[f] ELSE [text |-> <<>>, links |-> 1]]
                /\ ftNamed' = ftNamed \cup {<<d, c>>}
                /\ Step(c, [thread |-> "verify_file", file |-> c])
           [] leaf.kind = "file" ->
                /\ Step(c, [thread |-> "verify_file", file |-> leaf.to])
                /\ UNCHANGED <<ftLeaf, ftFiles, ftNamed>>
           [] leaf.kind \notin {"none", "file"} -> Fails(c) /\ UNCHANGED <<ftLeaf, ftFiles, ftNamed>>
  /\ ftLone' = ftLone \cup OpenAlone(ftCall', ftFiles')
  /\ UNCHANGED <<ftAt, ftRooted, ftMoves>>

(* The plausible slip: the file is trusted because its directory was.      *)
trust_file(c) ==
  /\ ftCall[c].thread = "verify_file"
  /\ Step(c, [thread |-> IF ftCall[c].tool = "write" THEN "check" ELSE "read"])
  /\ UNCHANGED ftTree

(* verify_handle_within() of the file: the path of its handle, which is    *)
(* the one it was opened by even where that name is gone.                  *)
verify_file(c) ==
  /\ ftCall[c].thread = "verify_file"
  /\ IF UnderRoot(ftCall[c].dir)
       THEN Step(c, [thread |-> IF ftCall[c].tool = "write" THEN "check" ELSE "read"])
       ELSE Fails(c)
  /\ UNCHANGED ftTree

(* read_confined(): the bytes, unless there are more than the limit.       *)
read_file(c) ==
  /\ ftCall[c].thread = "read"
  /\ LET text == ftFiles[ftCall[c].file].text
     IN  IF Len(text) > FtMaxBytes
           THEN Step(c, [thread |-> "done", result |-> "too_large"])
           ELSE Step(c, [thread |-> "done", result |-> "text", got |-> {text}])
  /\ UNCHANGED ftTree

(* Where a writer is that has written so much: write_all() of nothing is   *)
(* over before it begins.                                                  *)
Place(c, pos) == IF pos = FtLength[c] THEN "truncate" ELSE "write"

(* check_target(): one link at most, looked at once.                       *)
check_target(c) ==
  /\ ftCall[c].thread = "check"
  /\ IF ftFiles[ftCall[c].file].links > 1 THEN Fails(c)
     ELSE Step(c, [thread |-> Place(c, 0), pos |-> 0])
  /\ UNCHANGED ftTree

(* write(2) of some bytes at an offset, and ftruncate(2): what lies between *)
(* the end of the file and the new bytes, or its new end, is zeros.        *)
Written(text, from, bytes, c) ==
  [i \in 1 .. (IF Len(text) > from + bytes THEN Len(text) ELSE from + bytes) |->
     IF i \in from + 1 .. from + bytes THEN c ELSE IF i <= Len(text) THEN text[i] ELSE "nul"]
Sized(text, length) == [i \in 1 .. length |-> IF i <= Len(text) THEN text[i] ELSE "nul"]

Rewrite(c, text) == ftFiles' = [ftFiles EXCEPT ![ftCall[c].file].text = text]
IoError(c) == Step(c, [thread |-> "done", result |-> "failed"]) /\ UNCHANGED ftFiles

(* write_all() from offset zero, as many writes as it takes; one may fail. *)
(* What the file held beyond them is still there.                          *)
write_file(c) ==
  /\ ftCall[c].thread = "write"
  /\ LET pos == ftCall[c].pos IN
     \/ \E bytes \in 1 .. FtLength[c] - pos :
          /\ Rewrite(c, Written(ftFiles[ftCall[c].file].text, pos, bytes, c))
          /\ Step(c, [thread |-> Place(c, pos + bytes), pos |-> pos + bytes])
     \/ IoError(c)
  /\ UNCHANGED <<ftAt, ftLeaf, ftNamed, ftRooted, ftLone, ftMoves>>

(* set_len(), then sync_all(), either of which may fail.                   *)
truncate(c) ==
  /\ ftCall[c].thread = "truncate"
  /\ \/ /\ Rewrite(c, Sized(ftFiles[ftCall[c].file].text, FtLength[c]))
        /\ \E result \in {"written", "failed"} : Step(c, [thread |-> "done", result |-> result])
     \/ IoError(c)
  /\ UNCHANGED <<ftAt, ftLeaf, ftNamed, ftRooted, ftLone, ftMoves>>

(* The caller was still waiting when the thread was done.                  *)
join(c) ==
  /\ ftCall[c].thread = "done" /\ ftCall[c].answer = FtNone
  /\ Step(c, [answer |-> ftCall[c].result])
  /\ UNCHANGED ftTree

-----------------------------------------------------------------------------
(* Other processes: a directory or a link is renamed, a path is linked; a  *)
(* file gets a second name, or loses one, the open one too.                *)
Relocate == ftMoves < FtMaxMoves /\ ftMoves' = ftMoves + 1

Moves(at) ==
  /\ Relocate
  /\ ftAt' = at
  /\ ftRooted' = ftRooted \cup {d \in Dirs : \E p \in FtInside : at[p] = [kind |-> "dir", to |-> d]}
  /\ UNCHANGED <<ftLeaf, ftFiles, ftCall, ftNamed, ftLone>>

rename_path(p, q) == ftAt[p].kind # "none" /\ ftAt[q].kind = "none"
                /\ Moves([ftAt EXCEPT ![q] = ftAt[p], ![p] = Absent_])

link_path(p, q) == ftAt[p].kind = "none" /\ p # q
              /\ Moves([ftAt EXCEPT ![p] = [kind |-> "link", to |-> q]])

Relinks(leaf, files) ==
  /\ Relocate
  /\ ftLeaf' = leaf /\ ftFiles' = files
  /\ ftLone' = ftLone \cup OpenAlone(ftCall, files)
  /\ UNCHANGED <<ftAt, ftCall, ftRooted>>

add_name(d, e) ==
  /\ ftLeaf[d].kind = "file" /\ ftLeaf[e].kind = "none"
  /\ Relinks([ftLeaf EXCEPT ![e] = ftLeaf[d]], [ftFiles EXCEPT ![ftLeaf[d].to].links = @ + 1])
  /\ ftNamed' = ftNamed \cup {<<e, ftLeaf[d].to>>}

drop_name(d) ==
  /\ ftLeaf[d].kind = "file"
  /\ Relinks([ftLeaf EXCEPT ![d] = Absent_], [ftFiles EXCEPT ![ftLeaf[d].to].links = @ - 1])
  /\ UNCHANGED ftNamed

Thread(c) == \/ resolve_again(c) \/ open_path(c) \/ verify_directory(c) \/ scan(c) \/ open_at(c)
             \/ verify_file(c) \/ read_file(c) \/ check_target(c) \/ write_file(c) \/ truncate(c)

FileInit ==
  /\ \E scene \in FtScenes, form \in FtForms :
       /\ ftAt = scene.at /\ ftLeaf = scene.leaf /\ ftFiles = scene.files
       /\ ftCall = [c \in DOMAIN scene.tasks |->
                   [tool |-> scene.tasks[c], form |-> form, thread |-> "unasked", path |-> FtNone, dir |-> FtNone,
                    file |-> FtNone, pos |-> FtNone, result |-> FtNone, answer |-> FtNone, got |-> {}]]
  /\ ftNamed = {<<d, ftLeaf[d].to>> : d \in {e \in Dirs : ftLeaf[e].kind = "file"}}
  /\ ftRooted = {d \in Dirs : UnderRoot(d)}
  /\ ftLone = {}
  /\ ftMoves = 0

FileNext ==
  \/ \E c \in DOMAIN ftCall :
       planned_resources(c) \/ invoke(c) \/ give_up(c) \/ Thread(c) \/ join(c)
  \/ \E p, q \in FtPaths : rename_path(p, q) \/ link_path(p, q)
  \/ \E d, e \in Dirs : add_name(d, e)
  \/ \E d \in Dirs : drop_name(d)

FileSpec == FileInit /\ [][FileNext]_ftVars

(* Of the scenes: links and names lead to what is there, every file has a  *)
(* text, none of it a writer's, and what is written has a length.          *)
FileConstants ==
  /\ FtInside \subseteq FtPaths /\ FtNone \notin {"text", "written", "failed"} \cup Nat
  /\ \A scene \in FtScenes :
       /\ DOMAIN scene.at = FtPaths
       /\ \A p \in FtPaths : scene.at[p] \in [kind : {"none"}, to : {FtNone}] \cup [kind : {"link"}, to : FtPaths]
                                           \cup [kind : {"dir"}, to : DOMAIN scene.leaf]
       /\ \A d \in DOMAIN scene.leaf : scene.leaf[d].kind = "file" => scene.leaf[d].to \in DOMAIN scene.files
       /\ FtNone \notin DOMAIN scene.files
       /\ \A f \in DOMAIN scene.files :
            scene.files[f] \in [text : Seq({"o"}) \ {<<>>}, links : Nat]
       /\ \A c \in DOMAIN scene.tasks :
            c \notin {"o", "nul", FtNone} /\ (scene.tasks[c] = "write" => FtLength[c] \in Nat)

-----------------------------------------------------------------------------
BytesOf(f) == {ftFiles[f].text[i] : i \in DOMAIN ftFiles[f].text}

(* Whatever is renamed, linked and unlinked under a call, these tools read *)
(* and change only a file that had its name in a directory that was under  *)
(* the root.  A file that had a second name for as long as a call had it   *)
(* open is not changed by it; one that gets its second name after the look *)
(* at the link count is, which the code does not prevent (create_within(), *)
(* verify_handle_within(), check_target()).                                *)
StaysUnderRoot ==
  LET Within(f) == \E d \in ftRooted : <<d, f>> \in ftNamed
  IN  /\ \A c \in DOMAIN ftCall :
           /\ ftCall[c].result \in {"text", "written"} => Within(ftCall[c].file)
           /\ ftCall[c].result = "written" => <<c, ftCall[c].file>> \in ftLone
      /\ \A f \in DOMAIN ftFiles : \A c \in DOMAIN ftCall :
           c \in BytesOf(f) => Within(f) /\ <<c, f>> \in ftLone

(* The one call that has come to write to its file.                        *)
SoleWriter(c) ==
  /\ ftCall[c].pos # FtNone
  /\ \A d \in DOMAIN ftCall : d # c /\ ftCall[d].file = ftCall[c].file => ftCall[d].pos = FtNone

(* A replacement leaves no tail of what was there: a writer that is told so *)
(* has replaced all of it, and one that fails has replaced a beginning and *)
(* left the rest as it was, unless another writes the same file meanwhile. *)
(* A reader sees a file that had text as empty only where nothing is what  *)
(* some call writes (write.rs write_confined(): cut after writing).        *)
ReplacementIsWhole ==
  \A c \in DOMAIN ftCall :
    LET text == ftFiles[ftCall[c].file].text IN
    /\ SoleWriter(c) =>
         /\ Len(text) >= ftCall[c].pos
         /\ \A i \in DOMAIN text : text[i] = c <=> i <= ftCall[c].pos
         /\ ftCall[c].result = "written" => Len(text) = FtLength[c] /\ ftCall[c].pos = FtLength[c]
    /\ ftCall[c].result = "text" /\ ftCall[c].got = {<<>>} =>
         \/ ftCall[c].file \in DOMAIN ftCall
         \/ \E d \in DOMAIN ftCall : ftCall[d].tool = "write" /\ FtLength[d] = 0

(* Both: the files a call touches are the ones it may, and stay whole.     *)
FilesStayPut == StaysUnderRoot /\ ReplacementIsWhole
=============================================================================
