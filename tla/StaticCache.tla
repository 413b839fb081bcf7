----------------------------- MODULE StaticCache -----------------------------
(***************************************************************************)
(* A static service (src/internal/http/static-service.ts) and the part of  *)
(* sendFile() it uses (src/internal/http/response.ts): requests for files  *)
(* of one root, answered out of a cache of small files, while other        *)
(* programs replace and delete the files.                                  *)
(*                                                                         *)
(* A file is the number of the write that made it, which stands for its    *)
(* content, its size, and its mtime, which a slow clock may leave the same *)
(* from one write to the next.  A file is replaced as a whole.             *)
(***************************************************************************)
EXTENDS Naturals, FiniteSets, Sequences, SequencesExt

CONSTANTS
  MaxRequests,  \* bound: requests
  Services,     \* options of the service: dotfiles, fallthrough
  Files,        \* paths below the root
  Directories,  \* paths of directories
  Unsafe,       \* kinds of names that are no path to serve
  IndexOf,      \* the path of each directory's index
  SizesOf,      \* the sizes a file may have
  SmallLimit,   \* SMALL_FILE_CACHE_LIMIT
  CacheLimit,   \* MAX_CACHED_SMALL_FILES
  MaxWrites     \* bound: changes of files

ASSUME StaticAssumption ==
  /\ MaxRequests \in Nat /\ SmallLimit \in Nat /\ CacheLimit \in Nat \ {0}
  /\ MaxWrites \in Nat /\ SizesOf \in [Files -> SUBSET Nat]
  /\ Services \subseteq [dotfiles : {"allow", "deny", "ignore"}, fallthrough : BOOLEAN]
  /\ IndexOf \in [Directories -> Files \cup Directories]

\* Numbered in the order in which they begin.
Requests == 1..MaxRequests

VARIABLES
  service,      \* the options
  disk,         \* the files; version 0 is no file
  clock,        \* mtime of the next write, and writes so far
  smallFiles,   \* smallFileCache, a Map in the order of its entries
  requests      \* what each request asked for, how far it is, what it saw and sent

staticVars == <<service, disk, clock, smallFiles, requests>>

NoFile == [version |-> 0, size |-> 0, mtime |-> 0]
Sizes == UNION {SizesOf[f] : f \in Files}
Versions == [version : 0..MaxWrites, size : Sizes \cup {0}, mtime : 0..MaxWrites]
NotYet == [for |-> "none", phase |-> "idle", stat |-> NoFile, sent |-> NoFile, how |-> "none"]

StaticTypeOK ==
  /\ service \in Services
  /\ disk \in [Files -> Versions]
  /\ clock \in [mtime : Nat, writes : 0..MaxWrites]
  /\ smallFiles \in Seq([path : Files, mtime : 0..MaxWrites, size : Sizes \cup {0}, buffer : Versions])
  /\ requests \in [Requests ->
       [for : Files \cup Directories \cup {"none"}, stat : Versions, sent : Versions,
        how : {"none", "buffer", "stream"},
        phase : {"idle", "stat", "statIndex", "found", "reading", "streaming",
                 "sent", "next", "failed", "400", "403", "404"}]]

StaticInit ==
  /\ service \in Services
  /\ disk = [f \in Files |-> NoFile]
  /\ clock = [mtime |-> 0, writes |-> 0]
  /\ smallFiles = <<>>
  /\ requests = [r \in Requests |-> NotYet]

(***************************************************************************)
(* The files                                                               *)
(***************************************************************************)
Writes(f) ==
  /\ clock.writes < MaxWrites
  /\ \E size \in SizesOf[f], tick \in {0, 1} :
       /\ clock' = [mtime |-> clock.mtime + tick, writes |-> clock.writes + 1]
       /\ disk' = [disk EXCEPT ![f] =
            [version |-> clock.writes + 1, size |-> size, mtime |-> clock.mtime + tick]]
  /\ UNCHANGED <<service, smallFiles, requests>>

Deletes(f) ==
  /\ disk[f] # NoFile
  /\ disk' = [disk EXCEPT ![f] = NoFile]
  /\ UNCHANGED <<service, clock, smallFiles, requests>>

(***************************************************************************)
(* A request                                                               *)
(***************************************************************************)
Step(r, phase) ==
  /\ requests' = [requests EXCEPT ![r].phase = phase]
  /\ UNCHANGED <<service, disk, clock, smallFiles>>

\* Either next(), or the error for a service that does not fall through.
PassedOn(error) == IF service.fallthrough THEN "next" ELSE error

\* The checks of a name, in the code's order; "hidden" is a segment that begins with a dot.
Screened(why) ==
  CASE why = "malformed" -> PassedOn("400")
    [] why = "hidden" -> CASE service.dotfiles = "deny" -> "403"
                           [] service.dotfiles = "ignore" -> PassedOn("404")
                           [] OTHER -> "stat"
    [] why = "outside" -> PassedOn("403")
    [] OTHER -> "stat"

\* A hidden file that is allowed is served like any other: it is left to the plain paths.
Handle(r) ==
  /\ requests[r].phase = "idle"
  /\ \A q \in Requests : q < r => requests[q].phase # "idle"
  /\ \/ \E path \in Files \cup Directories :
          requests' = [requests EXCEPT ![r].for = path, ![r].phase = "stat"]
     \/ \E why \in Unsafe :
          /\ Screened(why) # "stat"
          /\ requests' = [requests EXCEPT ![r].phase = Screened(why)]
  /\ UNCHANGED <<service, disk, clock, smallFiles>>

\* A directory's index is looked at by a second stat.
StatDirectory(r) ==
  /\ requests[r].phase = "stat"
  /\ requests[r].for \in Directories
  /\ requests' = [requests EXCEPT ![r].phase = "statIndex", ![r].for = IndexOf[@]]
  /\ UNCHANGED <<service, disk, clock, smallFiles>>

\* An index that is itself a directory is no file.
StatFile(r) ==
  /\ \/ requests[r].phase = "stat" /\ requests[r].for \in Files
     \/ requests[r].phase = "statIndex"
  /\ IF requests[r].for \in Files /\ disk[requests[r].for] # NoFile
     THEN /\ requests' = [requests EXCEPT ![r].phase = "found", ![r].stat = disk[requests[r].for]]
          /\ UNCHANGED <<service, disk, clock, smallFiles>>
     ELSE Step(r, PassedOn("404"))

(***************************************************************************)
(* getSmallFileBuffer and sendFile                                         *)
(***************************************************************************)
Sends(r, content, how) ==
  requests' = [requests EXCEPT ![r].phase = "sent", ![r].sent = content, ![r].how = how]

At(path) == SelectInSeq(smallFiles, LAMBDA entry : entry.path = path)

Fresh(entry, stat) == entry.mtime = stat.mtime /\ entry.size = stat.size

\* Mutant: a file is taken for unchanged while it keeps its size.
IsCached_BySize(r) ==
  LET i == At(requests[r].for) IN i # 0 /\ smallFiles[i].size = requests[r].stat.size

IsCached(r) ==
  LET i == At(requests[r].for) IN i # 0 /\ Fresh(smallFiles[i], requests[r].stat)

TooLarge(r) == requests[r].stat.size > SmallLimit

\* The entry moves to the end of the Map.
ServeCached(r) ==
  /\ requests[r].phase = "found"
  /\ ~TooLarge(r) /\ IsCached(r)
  /\ LET i == At(requests[r].for) IN
       /\ smallFiles' = Append(RemoveAt(smallFiles, i), smallFiles[i])
       /\ Sends(r, smallFiles[i].buffer, "buffer")
  /\ UNCHANGED <<service, disk, clock>>

ReadBegins(r) ==
  /\ requests[r].phase = "found"
  /\ ~TooLarge(r) /\ ~IsCached(r)
  /\ Step(r, "reading")

\* A new path goes to the end and may push the first one out; one that is there keeps its place.
Cache(path, entry) ==
  LET i == At(path)
      grown == IF i # 0 THEN [smallFiles EXCEPT ![i] = entry] ELSE Append(smallFiles, entry)
  IN IF Len(grown) > CacheLimit THEN Tail(grown) ELSE grown

\* The file may have changed since stat: a buffer of another size is sent and not kept.
ReadEnds(r) ==
  /\ requests[r].phase = "reading"
  /\ LET path == requests[r].for
         stat == requests[r].stat
         buffer == disk[path]
     IN IF buffer = NoFile
        THEN Step(r, "failed")
        ELSE /\ Sends(r, buffer, "buffer")
             /\ smallFiles' =
                  IF buffer.size # stat.size THEN smallFiles
                  ELSE Cache(path, [path |-> path, mtime |-> stat.mtime, size |-> stat.size, buffer |-> buffer])
             /\ UNCHANGED <<service, disk, clock>>

\* A file above the limit is streamed, under the length of stat.
StreamBegins(r) ==
  /\ requests[r].phase = "found"
  /\ TooLarge(r)
  /\ Step(r, "streaming")

StreamOpens(r) ==
  /\ requests[r].phase = "streaming"
  /\ IF disk[requests[r].for] = NoFile
     THEN Step(r, "failed")
     ELSE /\ Sends(r, disk[requests[r].for], "stream")
          /\ UNCHANGED <<service, disk, clock, smallFiles>>

StaticNext ==
  \/ \E f \in Files : Writes(f) \/ Deletes(f)
  \/ \E r \in Requests :
       \/ Handle(r) \/ StatDirectory(r) \/ StatFile(r)
       \/ ServeCached(r) \/ ReadBegins(r) \/ ReadEnds(r)
       \/ StreamBegins(r) \/ StreamOpens(r)

StaticSpec == StaticInit /\ [][StaticNext]_staticVars

(***************************************************************************)
(* Properties                                                              *)
(***************************************************************************)
\* content-length: of the buffer, or of stat.
DeclaredLength(r) ==
  IF requests[r].how = "buffer" THEN requests[r].sent.size ELSE requests[r].stat.size

\* The content sent is at least as new as the file that stat saw: an older one, out of the
\* cache, has the same mtime and size, which nothing can tell apart.  The length that is
\* declared is the length that is sent, unless a streamed file changed after stat; and the
\* cache keeps at most CacheLimit files, each once and under the size of its buffer.
FileAnswerRight ==
  /\ \A r \in Requests : requests[r].phase = "sent" =>
       LET sent == requests[r].sent
           stat == requests[r].stat
       IN /\ sent.version >= stat.version \/ Fresh(sent, stat)
          /\ sent.size = DeclaredLength(r) \/ sent.version > stat.version
  /\ Len(smallFiles) <= CacheLimit
  /\ \A i, j \in DOMAIN smallFiles : i # j => smallFiles[i].path # smallFiles[j].path
  /\ \A i \in DOMAIN smallFiles : smallFiles[i].buffer.size = smallFiles[i].size
=============================================================================
