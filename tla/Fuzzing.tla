------------------------------- MODULE Fuzzing -------------------------------
(***************************************************************************)
(* The page "Fuzzing": the directories of coverage reports, the files of   *)
(* one of them and the lines of one file, polled while the page is open.   *)
(* Close cancels nothing: answers come into the closed slice.              *)
(*                                                                         *)
(* A directory is its date; a file is [path, coverage, words], the words   *)
(* that searches find in its path.                                         *)
(***************************************************************************)
EXTENDS RustService

CONSTANTS DirectoriesAnswers,  \* assets/reports/index.json: sequences of directories
          FilesOf,             \* the index of each directory: a set of sequences of files
          LineCounters,        \* the counters of a line of a report: sequences of counts
          FuzzingSearches      \* what the user may search for

ASSUME FuzzingAssumption ==
    /\ DOMAIN FilesOf \subseteq Nat \ {0}
    /\ \A answer \in DirectoriesAnswers : answer \in Seq(DOMAIN FilesOf)
    /\ \A d \in DOMAIN FilesOf : \A answer \in FilesOf[d] :
         answer \in Seq(ToSet(answer))
         /\ \A f \in ToSet(answer) :
              f = [path |-> f.path, coverage |-> f.coverage, words |-> f.words]
              /\ f.path \in Nat \ {0} /\ f.coverage \in Nat
    /\ LineCounters \subseteq Seq(Int)

VARIABLES fuzzing,       \* the slice fuzzing; answered: history, the last answer to the files table
          fuzzingReq,    \* the requests of getDirectories$, getFiles$ and getFileDetails$
          fuzzingRoute   \* pathFromRoute of the two tables

fuzzingVars == <<fuzzing, fuzzingReq, fuzzingRoute>>

NoDirectory == 0
NoPath == 0
BlankFile == [path |-> NoPath, coverage |-> 0, words |-> {}]   \* { ...undefined }
NoDetails == [dir |-> NoDirectory, path |-> NoPath, counters |-> <<>>, lineColor |-> "undefined"]
EmptyDetails == [NoDetails EXCEPT !.lineColor = "empty"]

initialFuzzing ==
    [directories |-> <<>>, activeDirectory |-> NoDirectory, files |-> <<>>, filteredFiles |-> <<>>,
     activeFile |-> NoRow, activeFileDetails |-> NoDetails, filterText |-> "",
     answered |-> [dir |-> NoDirectory, text |-> ""],
     sort |-> [sortBy |-> "path", sortDirection |-> "ascending"]]

initialFuzzingReq == [directories |-> {}, files |-> {}, details |-> {}]

initialRoute == [dir |-> NoDirectory, file |-> NoPath]
-----------------------------------------------------------------------------
\* The latest report first.
mapGetDirectoryNamesResponse(dirNames) ==
    LET directories == [i \in DOMAIN dirNames |-> [dateNumber |-> dirNames[i]]]
        sorted == sort(directories, [sortBy |-> "dateNumber", sortDirection |-> "descending"])
    IN  [i \in DOMAIN sorted |-> sorted[i].dateNumber]

filterFiles(files, filterText) ==
    filter(files, {f \in ToSet(files) : filterText = "" \/ filterText \in f.words})

\* getLineColor: the loop ends when counters that were hit meet counters that were
\* not.
getLineColor(counters) ==
    LET line[i \in 0..Len(counters)] ==
            IF i = 0 THEN [color |-> "aware", break |-> FALSE]
            ELSE LET before == line[i - 1]
                     color == IF counters[i] > 0 THEN "success" ELSE "warn"
                 IN  IF before.break THEN before
                     ELSE IF before.color \in {"aware", color} THEN [color |-> color, break |-> FALSE]
                     ELSE [color |-> "aware", break |-> TRUE]
    IN  IF counters = <<>> THEN "none" ELSE line[Len(counters)].color

\* getFileDetails: of the lines one is kept.
mapFileDetails(request, counters) ==
    [dir |-> request.dir, path |-> request.path, counters |-> counters, lineColor |-> getLineColor(counters)]

SetActiveDirectoryReduced(state, dir) ==
    IF dir = state.activeDirectory THEN state
    ELSE [state EXCEPT !.activeDirectory = dir, !.activeFile = NoRow, !.activeFileDetails = NoDetails]

\* Files that look the same under the filter are taken for the same files.
GetFilesSuccessReduced(dir, response) ==
    LET files == sort(response, fuzzing.sort)
        filteredFiles == filterFiles(files, fuzzing.filterText)
        answered == [fuzzing EXCEPT !.answered = [dir |-> dir, text |-> fuzzing.filterText]]
    IN  IF filteredFiles = fuzzing.filteredFiles THEN answered
        ELSE [answered EXCEPT !.files = files, !.filteredFiles = filteredFiles]

\* The active file is copied, and the copy of none is a file without a path.
GetFileDetailsSuccessReduced(state, details) ==
    IF details = state.activeFileDetails THEN state
    ELSE [state EXCEPT !.activeFileDetails = details,
                       !.activeFile = IF @ = NoRow THEN BlankFile ELSE @]

FilterReduced(filterText) ==
    [fuzzing EXCEPT !.filterText = filterText,
                    !.filteredFiles = sort(filterFiles(fuzzing.files, filterText), fuzzing.sort)]
-----------------------------------------------------------------------------
\* The slice, the requests and the routes, on their way through one step.
Now == [slice |-> fuzzing, req |-> fuzzingReq, route |-> fuzzingRoute]
Become(w) == fuzzing' = w.slice /\ fuzzingReq' = w.req /\ fuzzingRoute' = w.route

\* FUZZING_GET_FILE_DETAILS.  The effect reads the active directory; without one it
\* throws, which ends the request before it and counts as an empty answer.
getFileDetails(w, file) ==
    LET dir == w.slice.activeDirectory
        chosen == [w EXCEPT !.slice.activeFile = file]
    IN  IF dir = NoDirectory
        THEN [chosen EXCEPT !.slice = GetFileDetailsSuccessReduced(@, EmptyDetails), !.req.details = catchErrorAndRepeat(@)]
        ELSE [chosen EXCEPT !.req.details = switchMap(@, [dir |-> dir, path |-> file.path])]

\* FUZZING_GET_FILES.
getFiles(w) == [w EXCEPT !.req.files = switchMap(@, [dir |-> w.slice.activeDirectory])]

\* FUZZING_SET_ACTIVE_DIRECTORY; files are asked for also when it is active already.
setActiveDirectory(w, dir) == getFiles([w EXCEPT !.slice = SetActiveDirectoryReduced(@, dir)])

\* listenToDirectories: the directory of the URL, looked for once, else the first
\* when there is none yet.
directoriesShown(w) ==
    LET dirs == w.slice.directories
        looked == [w EXCEPT !.route.dir = NoDirectory]
    IN  IF dirs = <<>> THEN w
        ELSE IF w.route.dir # NoDirectory
        THEN IF w.route.dir \in ToSet(dirs) THEN setActiveDirectory(looked, w.route.dir) ELSE looked
        ELSE IF w.slice.activeDirectory = NoDirectory THEN setActiveDirectory(w, Head(dirs)) ELSE w

\* listenToFiles: the file of the URL is looked for until a list has it.
filesShown(w) ==
    LET file == find(w.slice.filteredFiles, "path", w.route.file)
    IN  IF file = NoRow THEN w ELSE getFileDetails([w EXCEPT !.route.file = NoPath], file)
-----------------------------------------------------------------------------
FuzzingOpen ==
    /\ Enter("fuzzing")
    /\ \E dir \in DOMAIN FilesOf : \E file \in UNION {ToSet(a) : a \in FilesOf[dir]} :
       \E route \in {initialRoute, [dir |-> dir, file |-> NoPath], [dir |-> dir, file |-> file.path]} :
         Become(filesShown(directoriesShown([Now EXCEPT !.route = route])))
    /\ UNCHANGED <<rust, loading>>

\* The timer of the page, every 5 seconds from its start.
FuzzingTick ==
    /\ On("fuzzing") /\ UNCHANGED <<rust, loading>>
    /\ LET asked == [Now EXCEPT !.req.directories = switchMap(@, "index")]
       IN  Become(IF fuzzing.activeDirectory = NoDirectory THEN asked ELSE getFiles(asked))

\* The timer of the files table.
FileTick ==
    /\ On("fuzzing") /\ fuzzing.activeFile # NoRow /\ Become(getFileDetails(Now, fuzzing.activeFile))
    /\ UNCHANGED <<rust, loading>>

\* FUZZING_GET_DIRECTORIES_SUCCESS; the table hears of directories that are others
\* than before.
DirectoriesAnswered(directories) ==
    LET answered == [Now EXCEPT !.req.directories = {}, !.slice.directories = directories]
    IN  Become(IF page = "fuzzing" /\ directories # fuzzing.directories THEN directoriesShown(answered)
                                                                         ELSE answered)

GetDirectoriesSuccess ==
    /\ fuzzingReq.directories # {} /\ UNCHANGED <<page, rust, loading>>
    /\ \E answer \in DirectoriesAnswers : DirectoriesAnswered(mapGetDirectoryNamesResponse(answer))

GetDirectoriesError ==
    /\ fuzzingReq.directories # {} /\ UNCHANGED <<page, rust, loading>> /\ DirectoriesAnswered(<<>>)

\* FUZZING_GET_FILES_SUCCESS.
FilesAnswered(dir, response) ==
    LET answered == [Now EXCEPT !.req.files = {}, !.slice = GetFilesSuccessReduced(dir, response)]
    IN  Become(IF page = "fuzzing" /\ answered.slice.filteredFiles # fuzzing.filteredFiles
               THEN filesShown(answered) ELSE answered)

GetFilesSuccess ==
    /\ \E r \in fuzzingReq.files : \E response \in FilesOf[r.dir] : FilesAnswered(r.dir, response)
    /\ UNCHANGED <<page, rust, loading>>

GetFilesError ==
    /\ \E r \in fuzzingReq.files : FilesAnswered(r.dir, <<>>)
    /\ UNCHANGED <<page, rust, loading>>

\* There is no report of a file without a path.
GetFileDetailsSuccess ==
    /\ \E r \in fuzzingReq.details, counters \in LineCounters :
         /\ r.path # NoPath
         /\ Become([Now EXCEPT !.slice = GetFileDetailsSuccessReduced(@, mapFileDetails(r, counters)),
                               !.req.details = Completed(@, r)])
    /\ UNCHANGED <<page, rust, loading>>

GetFileDetailsError ==
    /\ fuzzingReq.details # {}
    /\ Become([Now EXCEPT !.slice = GetFileDetailsSuccessReduced(@, EmptyDetails),
                          !.req.details = catchErrorAndRepeat(@)])
    /\ UNCHANGED <<page, rust, loading>>

DirectoryRowClick ==
    /\ On("fuzzing") /\ UNCHANGED <<rust, loading>>
    /\ \E dir \in ToSet(fuzzing.directories) \ {fuzzing.activeDirectory} : Become(setActiveDirectory(Now, dir))

FileRowClick ==
    /\ On("fuzzing") /\ UNCHANGED <<rust, loading>>
    /\ \E file \in Clickable(fuzzing.filteredFiles, "path", fuzzing.activeFile) : Become(getFileDetails(Now, file))

\* closeSidePanel: FUZZING_GET_FILE_DETAILS of no file.  The effect passes over it, details that are on
\* their way stay so.
closeCodePanel ==
    /\ On("fuzzing") /\ fuzzing.activeFile # NoRow /\ Become([Now EXCEPT !.slice.activeFile = NoRow])
    /\ UNCHANGED <<rust, loading>>

FuzzingSort ==
    /\ On("fuzzing") /\ UNCHANGED <<rust, loading>>
    /\ \E column \in {"coverage", "path"} :
         LET s == sortTable(fuzzing.sort, column)
         IN  Become(filesShown([Now EXCEPT !.slice.sort = s, !.slice.filteredFiles = sort(@, s)]))

FuzzingFilterFiles ==
    /\ On("fuzzing") /\ UNCHANGED <<rust, loading>>
    /\ \E text \in FuzzingSearches \cup {""} : Become(filesShown([Now EXCEPT !.slice = FilterReduced(text)]))

FuzzingClose ==
    /\ Leave("fuzzing") /\ UNCHANGED <<rust, loading>>
    /\ Become([Now EXCEPT !.slice = initialFuzzing, !.route = initialRoute])
-----------------------------------------------------------------------------
FuzzingInit ==
    /\ fuzzing = initialFuzzing /\ fuzzingRoute = initialRoute
    /\ fuzzingReq = initialFuzzingReq

FuzzingNext ==
    \/ FuzzingOpen \/ FuzzingTick \/ FileTick \/ GetDirectoriesSuccess \/ GetDirectoriesError
    \/ GetFilesSuccess \/ GetFilesError \/ GetFileDetailsSuccess \/ GetFileDetailsError
    \/ DirectoryRowClick \/ FileRowClick \/ closeCodePanel \/ FuzzingSort \/ FuzzingFilterFiles
    \/ FuzzingClose

\* Answers, searches and sortings in any order leave in the table the stored files
\* that the last search finds, in the order of the last sorting.
FilesFound ==
    /\ SortedBy(fuzzing.filteredFiles, fuzzing.sort)
    /\ ToSet(fuzzing.filteredFiles) = ToSet(filterFiles(fuzzing.files, fuzzing.filterText))

\* While no answer is on its way the table shows what the search finds of an answer
\* of the active directory, or nothing after an error: directories clicked in a row,
\* polls and what a closed page left behind do not mix, nor does an answer that is
\* dropped because it looks like what is shown.  Such an answer leaves the stored
\* files as they were, so after another search the table may show files of an
\* earlier directory until the next poll; the search of the answer is therefore
\* part of the condition.  A request on its way is for the active directory.
DirectoryFilesFit ==
    LET dir == fuzzing.activeDirectory
        text == fuzzing.filterText
    IN  page = "fuzzing" /\ dir # NoDirectory =>
          IF fuzzingReq.files # {} THEN fuzzingReq.files = {[dir |-> dir]}
          ELSE /\ fuzzing.answered.dir = dir
               /\ text = fuzzing.answered.text =>
                    \E answer \in FilesOf[dir] \cup {<<>>} :
                      ToSet(fuzzing.filteredFiles) = ToSet(filterFiles(answer, text))

\* The report beside a file is of this file in the active directory, or empty after
\* an error, unless its own is on its way; its line is green or red when all its
\* counters agree.  A report that comes after its file was left opens the panel
\* again for a file without a path, of which nothing is said.
FileDetailsFit ==
    LET file == fuzzing.activeFile
        details == fuzzing.activeFileDetails
    IN  /\ page = "fuzzing" /\ file \notin {NoRow, BlankFile} /\ fuzzingReq.details = {} =>
             details = EmptyDetails \/ (details.dir = fuzzing.activeDirectory /\ details.path = file.path)
        /\ details.counters # <<>> =>
             /\ details.lineColor = "success" <=> \A c \in ToSet(details.counters) : c > 0
             /\ details.lineColor = "warn" <=> \A c \in ToSet(details.counters) : c <= 0

FuzzingSound == FilesFound /\ DirectoryFilesFit /\ FileDetailsFit
=============================================================================
