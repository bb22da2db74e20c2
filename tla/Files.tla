------------------------------- MODULE Files -------------------------------
(***************************************************************************)
(* The file manager panel, components/ssh/file-manager.                    *)
(*                                                                         *)
(* A handler of the panel runs up to its await in one go, and what follows *)
(* the await in another; in between come other handlers, answers and a     *)
(* change of tab.  A job is one such handler: it keeps the connID and the  *)
(* cwd of the render it was made in.  A path is the sequence of its names; *)
(* a content is known by the file it was read from.  The wording of        *)
(* messages, the order of the rows and the bytes of a file are left out.   *)
(***************************************************************************)
EXTENDS Tab, FiniteSets, SequencesExt, TLC

CONSTANTS
  Folders,    \* paths of directories; <<>> is the root
  Plain,      \* paths of other files
  Binary,     \* those of them that do not look like text
  Jobs,       \* bound: handlers that wait for an answer at a time
  Clicks,     \* bound: handlers that the user starts
  Words       \* bound: names that are searched for

Paths == Folders \cup Plain
Names == {Last(p) : p \in Paths \ {<<>>}}

ASSUME FilesAssumption ==
  /\ <<>> \in Folders /\ Folders \cap Plain = {} /\ Binary \subseteq Plain
  /\ Words \subseteq Names /\ Clicks \in Nat
  /\ None \notin Conns \cup Paths \cup {"load", "preview", "save", "confirm"}

VARIABLES
  cwd, files, selected, loading,
  source,       \* auxiliary: the connection and directory the files were listed from
  preview, editor, permission,   \* the dialogs
  openedIn,     \* auxiliary: connID when a dialog was opened last
  query, search,
  hunts,        \* searches the backend was asked for: connection, place and stage
  tasks,        \* status of each task in the list
  jobs,
  tree,         \* paths that exist on a server
  temp,         \* archives in /tmp of a server
  clicks

listVars == <<cwd, files, selected, loading, source>>
dialogVars == <<preview, editor, permission, openedIn>>
searchVars == <<query, search, hunts>>
hostVars == <<tree, temp>>
filesVars == <<connID, listVars, dialogVars, searchVars, tasks, jobs, hostVars, clicks>>

NoJob == [kind |-> None, from |-> None, conn |-> None, dir |-> <<>>, path |-> None,
          todo |-> {}, answer |-> None]
Closed == [open |-> FALSE, file |-> None, busy |-> FALSE, content |-> None]
NoSearch == [id |-> 0, searching |-> FALSE, failed |-> FALSE, submitted |-> "", hits |-> {}]

-----------------------------------------------------------------------------
(* utils.ts                                                                *)

parentRemotePath(p) == IF p = <<>> THEN <<>> ELSE Front(p)
fileNameFromPath(p) == IF p = <<>> THEN "/" ELSE Last(p)
pathSegments(p) == {SubSeq(p, 1, n) : n \in 0 .. Len(p)}

makeArchiveName(paths, dir) ==
  IF Cardinality(paths) = 1 THEN fileNameFromPath(CHOOSE p \in paths : TRUE)
  ELSE IF dir = <<>> THEN "archive" ELSE fileNameFromPath(dir)

-----------------------------------------------------------------------------
(* What the panel shows, and what can be clicked there                     *)

filteredFiles == {p \in files : query \in {"", fileNameFromPath(p)}}
selectedFiles == files \cap selected

TableOffers ==
  {"toggle", "open", "edit", "rename", "chmod", "delete", "download"} \X filteredFiles

ToolbarOffers ==
  ({"open"} \X pathSegments(cwd)) \cup
  ({"parent", "refresh", "mkdir", "upload", "updir", "search", "clear", "all"} \X {cwd}) \cup
  (IF selected = {} THEN {} ELSE {"downloadSelected", "deleteSelected"} \X {cwd})

HitOffers ==
  IF search.searching \/ search.failed \/ query = search.submitted
  THEN {<<"open", h.path>> : h \in search.hits} ELSE {}

PreviewOffers ==
  {"closePreview", "download", "rename", "chmod", "edit", "delete"} \X {preview.file}

EditorOffers ==
  {<<"closeEditor", editor.file>>} \cup
  (IF editor.busy THEN {} ELSE {<<"save", editor.file>>})

PermissionOffers == {"closePermission", "apply"} \X {permission.file}

Asking == \E j \in Jobs : jobs[j].answer = "confirm"

\* A dialog keeps the clicks from what is under it.
Offers ==
  IF Asking THEN {}
  ELSE IF permission.open THEN PermissionOffers
  ELSE IF editor.open THEN EditorOffers
  ELSE IF preview.open THEN PreviewOffers
  ELSE TableOffers \cup ToolbarOffers \cup HitOffers

Count == clicks < Clicks /\ clicks' = clicks + 1
Click(what, p) == <<what, p>> \in Offers /\ Count

-----------------------------------------------------------------------------
(* Jobs, and the list of tasks (useUploadTasks.ts)                         *)

Start(j, kind, p, todo) ==
  /\ jobs[j] = NoJob
  /\ jobs' = [jobs EXCEPT ![j] = [NoJob EXCEPT !.kind = kind, !.conn = connID,
                                  !.dir = cwd, !.path = p, !.todo = todo]]

\* The handler goes on to loadDirectory.
Load(j, p) ==
  jobs' = [jobs EXCEPT ![j] = [@ EXCEPT !.kind = "load", !.from = jobs[j].kind,
                               !.path = p, !.todo = {}, !.answer = None]]

Answered(j, kinds) == jobs[j].kind \in kinds /\ jobs[j].answer \in {"ok", "failed"}
Went(j) == jobs[j].answer = "ok"
End(j) == jobs' = [jobs EXCEPT ![j] = NoJob]

registerTask(T, id) == IF id \in DOMAIN T THEN T ELSE T @@ (id :> "running")
updateTask(T, id, ok) ==
  IF id \in DOMAIN T THEN [T EXCEPT ![id] = IF ok THEN "success" ELSE "error"] ELSE T
Only(T, ids) == [id \in DOMAIN T \cap ids |-> T[id]]

\* An upload here or in another window goes on: ssh:upload-progress.
UploadProgress(p) ==
  /\ Count
  /\ tasks' = (<<"upload", p>> :> "running") @@ tasks
  /\ UNCHANGED <<connID, listVars, dialogVars, searchVars, jobs, hostVars>>

\* directory-upload-progress has no connection: the task is that of the panel's.
DirectoryProgress ==
  /\ Count
  /\ tasks' = (<<"directory-upload", connID>> :> "running") @@ tasks
  /\ UNCHANGED <<connID, listVars, dialogVars, searchVars, jobs, hostVars>>

removeTask ==
  /\ Count
  /\ \E id \in DOMAIN tasks : tasks' = Only(tasks, DOMAIN tasks \ {id})
  /\ UNCHANGED <<connID, listVars, dialogVars, searchVars, jobs, hostVars>>

clearCompleted ==
  /\ Count
  /\ tasks' = Only(tasks, {id \in DOMAIN tasks : tasks[id] = "running"})
  /\ UNCHANGED <<connID, listVars, dialogVars, searchVars, jobs, hostVars>>

-----------------------------------------------------------------------------
(* Listing and selecting                                                   *)

\* Fault: the path bar goes ahead of the answer.
loadDirectoryAtOnce(j) ==
  /\ \E p \in Folders :
       /\ \/ Click("open", p)
          \/ p = cwd /\ Click("refresh", cwd)
          \/ p = parentRemotePath(cwd) /\ Click("parent", cwd)
       /\ Start(j, "load", p, {})
       /\ cwd' = p
  /\ loading' = TRUE
  /\ UNCHANGED <<connID, files, selected, source, dialogVars, searchVars, tasks, hostVars>>

loadDirectory(j) ==
  /\ \E p \in Folders :
       /\ \/ Click("open", p)
          \/ p = cwd /\ Click("refresh", cwd)
          \/ p = parentRemotePath(cwd) /\ Click("parent", cwd)
       /\ Start(j, "load", p, {})
  /\ loading' = TRUE
  /\ UNCHANGED <<connID, cwd, files, selected, source, dialogVars, searchVars, tasks,
                 hostVars>>

\* Fault: a failure leaves the spinner on, as without the finally.
LoadedUnlessFailed(j) ==
  /\ Answered(j, {"load"})
  /\ IF Went(j)
     THEN /\ cwd' = jobs[j].path /\ files' = jobs[j].todo /\ selected' = {}
          /\ source' = [conn |-> jobs[j].conn, dir |-> jobs[j].path]
          /\ loading' = FALSE
     ELSE UNCHANGED <<cwd, files, selected, source, loading>>
  /\ editor' = IF jobs[j].from = "save" THEN [editor EXCEPT !.busy = FALSE] ELSE editor
  /\ End(j)
  /\ UNCHANGED <<connID, preview, permission, openedIn, searchVars, tasks, hostVars,
                 clicks>>

\* After the await; a failure keeps what is shown.
Loaded(j) ==
  /\ Answered(j, {"load"})
  /\ IF Went(j)
     THEN /\ cwd' = jobs[j].path /\ files' = jobs[j].todo /\ selected' = {}
          /\ source' = [conn |-> jobs[j].conn, dir |-> jobs[j].path]
     ELSE UNCHANGED <<cwd, files, selected, source>>
  /\ loading' = FALSE
  /\ editor' = IF jobs[j].from = "save" THEN [editor EXCEPT !.busy = FALSE] ELSE editor
  /\ End(j)
  /\ UNCHANGED <<connID, preview, permission, openedIn, searchVars, tasks, hostVars,
                 clicks>>

\* Fault: the editor is left open.
ClosingNoEditor == preview' = [preview EXCEPT !.open = FALSE]
                   /\ permission' = [permission EXCEPT !.open = FALSE]
                   /\ editor' = editor

Closing == preview' = [preview EXCEPT !.open = FALSE]
           /\ editor' = [editor EXCEPT !.open = FALSE]
           /\ permission' = [permission EXCEPT !.open = FALSE]

\* The effect on connID.  The search of the old tab is cancelled in the backend, which
\* makes it complete sooner.
ChangeTab(j, c) ==
  /\ c # connID /\ Count
  /\ connID' = c
  /\ files' = {} /\ selected' = {} /\ source' = [conn |-> c, dir |-> cwd]
  /\ Closing
  /\ search' = NoSearch /\ query' = ""
  /\ loading' = TRUE
  /\ jobs[j] = NoJob
  /\ jobs' = [jobs EXCEPT ![j] = [NoJob EXCEPT !.kind = "load", !.conn = c, !.dir = cwd,
                                  !.path = <<>>]]
  /\ UNCHANGED <<cwd, openedIn, hunts, tasks, hostVars>>

toggleSelection ==
  /\ \/ \E p \in files : Click("toggle", p) /\ selected' = SymDiff(selected, {p})
     \/ Click("all", cwd) /\ selected' \in {{}, filteredFiles}
  /\ UNCHANGED <<connID, cwd, files, loading, source, dialogVars, searchVars, tasks, jobs,
                 hostVars>>

-----------------------------------------------------------------------------
(* Dialogs                                                                 *)

\* openFilePreview of a file.
openPreview(j, p) ==
  /\ p \in Plain /\ Click("open", p) /\ Start(j, "preview", p, {})
  /\ preview' = [open |-> TRUE, file |-> p, busy |-> TRUE, content |-> None]
  /\ openedIn' = connID
  /\ UNCHANGED <<connID, listVars, editor, permission, searchVars, tasks, hostVars>>

Content(job) ==
  IF job.path \in Binary THEN None ELSE [conn |-> job.conn, path |-> job.path]

Previewed(j) ==
  /\ Answered(j, {"preview"}) /\ End(j)
  /\ preview' = [preview EXCEPT !.busy = FALSE,
                                !.content = IF Went(j) THEN Content(jobs[j]) ELSE @]
  /\ UNCHANGED <<connID, listVars, editor, permission, openedIn, searchVars, tasks,
                 hostVars, clicks>>

openEditor(j, p) ==
  /\ p \in Plain /\ Click("edit", p) /\ Start(j, "edit", p, {})
  /\ editor' = [open |-> TRUE, file |-> p, busy |-> FALSE, content |-> None]
  /\ preview' = [preview EXCEPT !.open = FALSE]
  /\ openedIn' = connID
  /\ UNCHANGED <<connID, listVars, permission, searchVars, tasks, hostVars>>

\* A binary file is not edited.
EditorFilled(j) ==
  /\ Answered(j, {"edit"}) /\ End(j)
  /\ editor' = IF Went(j) /\ jobs[j].path \notin Binary
               THEN [editor EXCEPT !.content = Content(jobs[j])]
               ELSE [editor EXCEPT !.open = FALSE]
  /\ UNCHANGED <<connID, listVars, preview, permission, openedIn, searchVars, tasks,
                 hostVars, clicks>>

openPermissions(p) ==
  /\ Click("chmod", p)
  /\ permission' = [open |-> TRUE, file |-> p]
  /\ openedIn' = connID
  /\ UNCHANGED <<connID, listVars, preview, editor, searchVars, tasks, jobs, hostVars>>

Dismiss ==
  /\ \/ Click("closePreview", preview.file)
        /\ preview' = [preview EXCEPT !.open = FALSE] /\ UNCHANGED <<editor, permission>>
     \/ Click("closeEditor", editor.file)
        /\ editor' = [editor EXCEPT !.open = FALSE] /\ UNCHANGED <<preview, permission>>
     \/ Click("closePermission", permission.file)
        /\ permission' = [permission EXCEPT !.open = FALSE] /\ UNCHANGED <<preview, editor>>
  /\ UNCHANGED <<connID, listVars, openedIn, searchVars, tasks, jobs, hostVars>>

-----------------------------------------------------------------------------
(* Changes to a server                                                     *)

\* A name typed is joined to the directory, or with a slash in front a path of its own:
\* any path of the model may come out, the old one of a rename too.
handleCreateFolder(j, path) ==
  /\ Click("mkdir", cwd) /\ Start(j, "mkdir", path, {})
  /\ UNCHANGED <<connID, listVars, dialogVars, searchVars, tasks, hostVars>>

handleRename(j, p, to) ==
  /\ to \in Folders <=> p \in Folders
  /\ Click("rename", p) /\ Start(j, "rename", p, {to})
  /\ UNCHANGED <<connID, listVars, dialogVars, searchVars, tasks, hostVars>>

\* handleDelete up to the answer to its question; the preview closes under it.
handleDelete(j) ==
  /\ jobs[j] = NoJob
  /\ \E ps \in {{p} : p \in files \cup {preview.file}} \cup {selectedFiles} :
       /\ ps # {}
       /\ \/ Click("deleteSelected", cwd) /\ ps = selectedFiles
          \/ \E p \in ps : ps = {p} /\ Click("delete", p)
       /\ jobs' = [jobs EXCEPT ![j] = [NoJob EXCEPT !.kind = "delete", !.conn = connID,
                     !.dir = cwd, !.todo = ps, !.answer = "confirm"]]
  /\ preview' = [preview EXCEPT !.open = FALSE]
  /\ UNCHANGED <<connID, listVars, editor, permission, openedIn, searchVars, tasks,
                 hostVars>>

Confirm(j) ==
  /\ jobs[j].answer = "confirm"
  /\ \/ End(j)
     \/ jobs' = [jobs EXCEPT ![j].answer = None]
  /\ UNCHANGED <<connID, listVars, dialogVars, searchVars, tasks, hostVars, clicks>>

handleUploadFiles(j, ps) ==
  /\ Click("upload", cwd) /\ ps # {}
  /\ \A p \in ps : parentRemotePath(p) = cwd
  /\ Start(j, "upload", None, ps)
  /\ tasks' = registerTask(tasks, <<"upload", CHOOSE p \in ps : TRUE>>)
  /\ UNCHANGED <<connID, listVars, dialogVars, searchVars, hostVars>>

handleUploadDirectory(j) ==
  /\ Click("updir", cwd) /\ Start(j, "updir", cwd, {})
  /\ tasks' = registerTask(tasks, <<"directory-upload", connID>>)
  /\ UNCHANGED <<connID, listVars, dialogVars, searchVars, hostVars>>

handleSaveEdit(j) ==
  /\ Click("save", editor.file) /\ Start(j, "save", editor.file, {editor.content})
  /\ tasks' = registerTask(tasks, <<"upload", editor.file>>)
  /\ editor' = [editor EXCEPT !.busy = TRUE]
  /\ UNCHANGED <<connID, listVars, preview, permission, openedIn, searchVars, hostVars>>

handleApplyPermission(j) ==
  /\ Click("apply", permission.file) /\ Start(j, "chmod", permission.file, {})
  /\ UNCHANGED <<connID, listVars, dialogVars, searchVars, tasks, hostVars>>

\* The answer to one of the handlers that reload only when the call went well.
Changed(j) ==
  LET kind == jobs[j].kind IN
  /\ Answered(j, {"mkdir", "rename", "updir", "save", "chmod"})
  /\ IF Went(j) THEN Load(j, jobs[j].dir) /\ loading' = TRUE
                ELSE End(j) /\ UNCHANGED loading
  /\ selected' = IF kind = "rename" /\ Went(j)
                 THEN (selected \ {jobs[j].path}) \cup jobs[j].todo ELSE selected
  /\ tasks' = CASE kind = "save" -> updateTask(tasks, <<"upload", jobs[j].path>>, Went(j))
                [] kind = "updir" ->
                     updateTask(tasks, <<"directory-upload", jobs[j].conn>>, Went(j))
                [] OTHER -> tasks
  /\ editor' = IF kind # "save" THEN editor
               ELSE IF Went(j) THEN [editor EXCEPT !.open = FALSE]
               ELSE [editor EXCEPT !.busy = FALSE]
  /\ permission' = IF kind = "chmod" /\ Went(j) THEN [permission EXCEPT !.open = FALSE]
                   ELSE permission
  /\ UNCHANGED <<connID, cwd, files, source, preview, openedIn, searchVars, hostVars,
                 clicks>>

\* The path a loop over files is at.
Item(job) == CHOOSE p \in job.todo : TRUE

\* One round of the loop over files to delete or to upload; a failure does not end it.
NextFile(j) ==
  LET job == jobs[j]  rest == job.todo \ {Item(job)}
      done == updateTask(tasks, <<"upload", Item(job)>>, Went(j)) IN
  /\ Answered(j, {"delete", "upload"})
  /\ tasks' = IF job.kind = "delete" THEN tasks
              ELSE IF rest = {} THEN done
              ELSE registerTask(done, <<"upload", CHOOSE p \in rest : TRUE>>)
  /\ IF rest = {}
     THEN /\ Load(j, job.dir) /\ loading' = TRUE
          /\ selected' = IF job.kind = "delete" THEN {} ELSE selected
     ELSE /\ jobs' = [jobs EXCEPT ![j].todo = rest, ![j].answer = None]
          /\ UNCHANGED <<selected, loading>>
  /\ UNCHANGED <<connID, cwd, files, source, dialogVars, searchVars, hostVars, clicks>>

-----------------------------------------------------------------------------
(* Downloads                                                               *)

\* One file comes by itself, a folder or several files as an archive.
handleDownload(j) ==
  /\ \E ps \in {{p} : p \in files \cup {preview.file}} \cup {selectedFiles} :
       /\ ps # {}
       /\ \/ Click("downloadSelected", cwd) /\ ps = selectedFiles
          \/ \E p \in ps : ps = {p} /\ Click("download", p)
       /\ LET scope == IF \E p \in Plain : ps = {p} THEN CHOOSE p \in ps : TRUE
                       ELSE <<makeArchiveName(ps, cwd)>>
              kind == IF \E p \in Plain : ps = {p} THEN "download" ELSE "archive" IN
          /\ Start(j, kind, scope, ps)
          /\ tasks' = registerTask(tasks, <<kind, scope>>)
  /\ UNCHANGED <<connID, listVars, dialogVars, searchVars, hostVars>>

\* createArchive, downloadFile and deleteTempFile, one after the other.
Step == [archive |-> "fetch", fetch |-> "sweep"]

Downloaded(j) ==
  LET kind == jobs[j].kind
      id == <<IF kind = "download" THEN "download" ELSE "archive", jobs[j].path>> IN
  /\ Answered(j, {"download", "archive", "fetch", "sweep"})
  /\ IF Went(j) /\ kind \in DOMAIN Step
     THEN /\ jobs' = [jobs EXCEPT ![j].kind = Step[kind], ![j].answer = None]
          /\ tasks' = tasks
     ELSE End(j) /\ tasks' = updateTask(tasks, id, Went(j))
  /\ UNCHANGED <<connID, listVars, dialogVars, searchVars, hostVars, clicks>>

-----------------------------------------------------------------------------
(* Recursive search (useRemoteSearch.ts)                                   *)

setQuery(q) ==
  /\ Offers \cap ({"search"} \X {cwd}) # {} /\ q # query
  /\ query' = q
  /\ UNCHANGED <<connID, listVars, dialogVars, search, hunts, tasks, jobs, hostVars, clicks>>

searchFiles ==
  /\ Click("search", cwd)
  /\ IF query = ""
     THEN search' = NoSearch /\ UNCHANGED hunts
     ELSE /\ hunts' = Append(hunts, [conn |-> connID, base |-> cwd, word |-> query,
                                     at |-> "asked"])
          /\ search' = [NoSearch EXCEPT !.id = Len(hunts'), !.searching = TRUE,
                                        !.submitted = query]
  /\ UNCHANGED <<connID, listVars, dialogVars, query, tasks, jobs, hostVars>>

\* Clearing the box leaves the search in the backend alone.
resetSearch ==
  /\ Click("clear", cwd)
  /\ search' = NoSearch /\ query' = ""
  /\ UNCHANGED <<connID, listVars, dialogVars, hunts, tasks, jobs, hostVars>>

Hunting(i, at, then) ==
  /\ hunts[i].at = at
  /\ hunts' = [hunts EXCEPT ![i].at = then]
  /\ UNCHANGED <<connID, listVars, dialogVars, query, tasks, jobs, hostVars, clicks>>

\* Fault: events of every search are heard.
HearAny(i, new) == search' = new

\* What an event does, unless it is of another search.
Hear(i, new) == search' = IF search.id = i THEN new ELSE search

SearchStart(i) ==
  /\ Hunting(i, "asked", "running")
  /\ Hear(i, [search EXCEPT !.searching = TRUE, !.failed = FALSE])

SearchResult(i) ==
  /\ Hunting(i, "running", "running")
  /\ \E p \in tree[hunts[i].conn] :
       /\ IsStrictPrefix(hunts[i].base, p) /\ Last(p) = hunts[i].word
       /\ Hear(i, [search EXCEPT !.hits = @ \cup {[id |-> i, path |-> p]}])

SearchComplete(i) ==
  /\ Hunting(i, "running", "done")
  /\ Hear(i, [search EXCEPT !.searching = FALSE])

\* The call fails, before it has started or at its end.
SearchFails(i) ==
  /\ hunts[i].at # "done" /\ Hunting(i, hunts[i].at, "done")
  /\ Hear(i, [search EXCEPT !.searching = FALSE, !.failed = TRUE])

-----------------------------------------------------------------------------
(* The servers                                                             *)

\* What a call does there.
Effect(job, T) ==
  CASE job.kind \in {"mkdir", "save"} -> T \cup {job.path}
    [] job.kind = "rename" -> {IF IsPrefix(job.path, p)
         THEN Item(job) \o SubSeq(p, Len(job.path) + 1, Len(p)) ELSE p : p \in T}
    [] job.kind = "delete" -> {p \in T : ~IsPrefix(Item(job), p)}
    [] job.kind = "upload" -> T \cup {Item(job)}
    [] OTHER -> T

Possible(job) ==
  CASE job.kind \in {"load", "preview", "edit", "chmod", "download"} ->
         job.path \in tree[job.conn]
    [] job.kind = "rename" ->   \* not onto what is there, and not into itself
         job.path \in tree[job.conn] /\ Item(job) \notin tree[job.conn]
         /\ ~IsPrefix(job.path, Item(job))
    [] job.kind = "fetch" -> job.path \in temp[job.conn]
    [] OTHER -> TRUE

Serve(j) ==
  LET job == jobs[j] IN
  /\ job.kind # None /\ job.answer = None
  /\ \/ jobs' = [jobs EXCEPT ![j].answer = "failed"] /\ UNCHANGED hostVars
     \/ /\ Possible(job)
        /\ tree' = [tree EXCEPT ![job.conn] = Effect(job, @)]
        /\ temp' = [temp EXCEPT ![job.conn] =
                      CASE job.kind = "archive" -> @ \cup {job.path}
                        [] job.kind = "sweep" -> @ \ {job.path}
                        [] OTHER -> @]
        /\ jobs' = [jobs EXCEPT ![j].answer = "ok",
                      ![j].todo = IF job.kind # "load" THEN @
                        ELSE {p \in tree[job.conn] \ {<<>>} : Front(p) = job.path}]
  /\ UNCHANGED <<connID, listVars, dialogVars, searchVars, tasks, clicks>>

-----------------------------------------------------------------------------

FilesInit ==
  /\ connID \in Conns
  /\ cwd = <<>> /\ files = {} /\ selected = {} /\ loading = TRUE
  /\ source = [conn |-> connID, dir |-> <<>>]
  /\ preview = Closed /\ editor = Closed /\ permission = [open |-> FALSE, file |-> None]
  /\ openedIn = connID
  /\ query = "" /\ search = NoSearch /\ hunts = <<>>
  /\ tasks = <<>>
  /\ \E j \in Jobs : jobs = [k \in Jobs |-> IF k # j THEN NoJob
                       ELSE [NoJob EXCEPT !.kind = "load", !.conn = connID, !.path = <<>>]]
  /\ tree = [c \in Conns |-> Paths]
  /\ temp = [c \in Conns |-> {}]
  /\ clicks = 0

JobStarts(j) ==
  \/ loadDirectory(j) \/ handleUploadDirectory(j) \/ handleSaveEdit(j)
  \/ handleApplyPermission(j) \/ handleDelete(j) \/ handleDownload(j)
  \/ \E c \in Conns : ChangeTab(j, c)
  \/ \E p \in Paths : openPreview(j, p) \/ openEditor(j, p)
  \/ \E ps \in SUBSET Plain : handleUploadFiles(j, ps)
  \/ \E p \in Folders : handleCreateFolder(j, p)
  \/ \E p, to \in Paths : handleRename(j, p, to)

JobGoesOn(j) ==
  \/ Loaded(j) \/ Previewed(j) \/ EditorFilled(j) \/ Changed(j) \/ NextFile(j)
  \/ Downloaded(j) \/ Confirm(j) \/ Serve(j)

SearchGoesOn(i) ==
  SearchStart(i) \/ SearchResult(i) \/ SearchComplete(i) \/ SearchFails(i)

FilesNext ==
  \/ \E j \in Jobs : JobStarts(j) \/ JobGoesOn(j)
  \/ \E i \in DOMAIN hunts : SearchGoesOn(i)
  \/ toggleSelection \/ Dismiss \/ searchFiles \/ resetSearch
  \/ DirectoryProgress \/ removeTask \/ clearCompleted
  \/ \E p \in Paths : openPermissions(p)
  \/ \E p \in Plain : UploadProgress(p)
  \/ \E q \in Words \cup {""} : setQuery(q)

FilesSpec == FilesInit /\ [][FilesNext]_filesVars

-----------------------------------------------------------------------------

\* The files in the table are those of the directory in the path bar, whatever the
\* order in which the answers to several loadDirectory calls come.
ListingOfCwd == files # {} => source.dir = cwd /\ \A p \in files : Front(p) = cwd

\* Whatever the panel shows as busy still waits for an answer that ends it: no
\* spinner of loadDirectory, a preview, a save or a search is left over by a failure,
\* by another handler or by a change of tab.
SpinnersWait ==
  /\ loading => \E j \in Jobs : jobs[j].kind = "load"
  /\ preview.busy => \E j \in Jobs : jobs[j].kind = "preview"
  /\ editor.busy => \E j \in Jobs : "save" \in {jobs[j].kind, jobs[j].from}
  /\ search.searching => hunts[search.id].at # "done"

\* The results shown are of the last search that was made, and of the tab in front,
\* though the backend goes on with earlier ones and with those of other tabs.
ResultsOfSearch ==
  \A h \in search.hits : h.id = search.id /\ hunts[h.id].conn = connID

\* An open dialog was opened in the tab in front: what is saved, changed or deleted from
\* it goes to the connection of the tab in which the file was picked.  Whether the file
\* is of that server is another matter, as a late load of the tab before fills the table.
DialogsOfTab == preview.open \/ editor.open \/ permission.open => openedIn = connID

=============================================================================
