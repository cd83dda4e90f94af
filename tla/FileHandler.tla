---------------------------- MODULE FileHandler ----------------------------
(***************************************************************************)
(* file_handler.cc: a target is mapped to a path below the handler's root; *)
(* the file is opened once to see whether it is there and once more to be  *)
(* read, piece by piece, while others create, replace, remove and rewrite  *)
(* files.                                                                  *)
(***************************************************************************)
EXTENDS RequestHandler

CONSTANTS
  FilePaths,   \* the paths at which something may be found
  Contents,    \* what a file may hold
  Pieces       \* bounds the pieces in which a file is read

ASSUME ContentsAssumption == Contents \cap {"directory", "nothing", "none"} = {}
ASSUME PiecesAssumption == Pieces \in Nat \ {0}

VARIABLES
  files,       \* what is at each path: a file's contents, "directory" or "nothing"
  opened,      \* what the second opening has opened: "nothing" if it failed, else a
               \* directory or what that file holds now; "none" before
  linked,      \* whether that is still what is at the path
  payload,     \* what each piece that was read is part of
  seen         \* what has been at the path of this call so far, or in the open file

fileVars == <<files, opened, linked, payload, seen>>

Extensions == {".html", ".txt", ".jpg", ".zip", ".other"}

\* Seeded fault of FileStart: find("/"), which finds the first.
FileStartAtFirst(target) ==
  LET slashes == {n \in 1 .. Len(target) : target[n] = "/"}
  IN  IF slashes = {} THEN 0 ELSE CHOOSE n \in slashes : \A m \in slashes : n <= m

\* "request.target().find("/", 1)": the second slash, or 0 for none.
FileStart(target) ==
  LET slashes == {n \in 2 .. Len(target) : target[n] = "/"}
  IN  IF slashes = {} THEN 0 ELSE CHOOSE n \in slashes : \A m \in slashes : n <= m

HasFile(target) == FileStart(target) \notin {0, Len(target)}
FilePath(root, target) == root \o SubSeq(target, FileStart(target), Len(target))

\* The first of the known extensions, in this order, that occurs in the target,
\* wherever it does.
KnownTypes ==
  <<<<".html", "text/html">>, <<".txt", "text/plain">>, <<".jpg", "image/jpeg">>,
    <<".zip", "application/zip">>>>

\* Seeded fault of MimeType: what is unknown has the extension for a type.
MimeTypeAnyhow(target) ==
  LET occurs == {target[n] : n \in 1 .. Len(target)} \cap Extensions
  IN  IF occurs = {} THEN "" ELSE CHOOSE e \in occurs : TRUE

MimeType(target) ==
  LET occurs == {target[n] : n \in 1 .. Len(target)} \cap Extensions
      known == {k \in 1 .. 4 : KnownTypes[k][1] \in occurs}
  IN  CASE occurs = {} -> ""
        [] known # {} -> KnownTypes[CHOOSE k \in known : \A l \in known : k <= l][2]
        [] OTHER -> "unsupported"

IsFileCall == Handler.type = "FileHandler"
PathOfCall == FilePath(Handler.root, call.target)
AtPath(path) == IF path \in FilePaths THEN files[path] ELSE "nothing"

FileInit ==
  /\ files \in IF IsFileCall THEN [FilePaths -> Contents \cup {"directory", "nothing"}]
               ELSE {[p \in FilePaths |-> "nothing"]}
  /\ opened = "none" /\ linked = FALSE /\ payload = <<>>
  /\ seen = IF IsFileCall /\ HasFile(call.target) THEN {AtPath(PathOfCall)} ELSE {}

\* Another method than GET gets the empty response.
NotGet ==
  /\ Step("FileHandler", "called")
  /\ call.method # "GET"
  /\ Return(Default)
  /\ UNCHANGED fileVars

NeedFilePath ==
  /\ Step("FileHandler", "called")
  /\ call.method = "GET" /\ ~HasFile(call.target)
  /\ Return(NotFound)
  /\ UNCHANGED fileVars

\* Seeded fault of OpenFile: the file is not looked for.
OpenFileUnchecked ==
  /\ Step("FileHandler", "called")
  /\ call.method = "GET" /\ HasFile(call.target)
  /\ at' = "opened"
  /\ UNCHANGED <<call, response, fileVars>>

\* A directory can be opened as well.
OpenFile ==
  /\ Step("FileHandler", "called")
  /\ call.method = "GET" /\ HasFile(call.target)
  /\ IF AtPath(PathOfCall) = "nothing" THEN Return(NotFound)
     ELSE at' = "opened" /\ UNCHANGED <<call, response>>
  /\ UNCHANGED fileVars

\* The second opening is not checked.
OpenAgain ==
  /\ Step("FileHandler", "opened")
  /\ at' = "reading"
  /\ opened' = AtPath(PathOfCall) /\ linked' = TRUE
  /\ UNCHANGED <<call, response, files, payload, seen>>

\* Reading a directory makes the stream buffer throw.
ReadDirectory ==
  /\ Step("FileHandler", "reading")
  /\ opened = "directory"
  /\ Throw
  /\ UNCHANGED fileVars

\* The stream buffer is filled once more, with what the file holds by now.
ReadPiece ==
  /\ Step("FileHandler", "reading")
  /\ opened \in Contents /\ Len(payload) < Pieces
  /\ payload' = Append(payload, opened)
  /\ UNCHANGED <<callVars, files, opened, linked, seen>>

\* The end of the file, or there is none: what is gone is read as empty.
ReadEnd ==
  /\ Step("FileHandler", "reading")
  /\ opened = "nothing" \/ (opened \in Contents /\ payload # <<>>)
  /\ Return([status |-> 200, type |-> <<MimeType(call.target)>>,
             body |-> IF payload = <<>> THEN "empty" ELSE "payload"])
  /\ UNCHANGED fileVars

Look(things) == IF seen = {} THEN {} ELSE seen \cup things

\* Somebody else creates, replaces or removes something.  A file that is open
\* then keeps what it holds.
Replace ==
  /\ IsFileCall /\ at \in {"called", "opened", "reading"}
  /\ \E p \in FilePaths, c \in Contents \cup {"directory", "nothing"} :
       /\ files' = [files EXCEPT ![p] = c]
       /\ linked' = (linked /\ p # PathOfCall)
  /\ UNCHANGED <<callVars, opened, payload>>
  /\ seen' = Look({AtPath(PathOfCall)'})

\* Or rewrites a file in its place, be it open or not.
Rewrite ==
  /\ IsFileCall /\ at \in {"called", "opened", "reading"}
  /\ \E p \in FilePaths, c \in Contents :
       /\ files[p] \in Contents
       /\ files' = [files EXCEPT ![p] = c]
       /\ opened' = IF linked /\ p = PathOfCall THEN c ELSE opened
  /\ UNCHANGED <<callVars, linked, payload>>
  /\ seen' = Look({AtPath(PathOfCall)'})

FilesChange == Replace \/ Rewrite

HandleFile ==
  NotGet \/ NeedFilePath \/ OpenFile \/ OpenAgain \/ ReadDirectory \/ ReadPiece \/ ReadEnd
=============================================================================
