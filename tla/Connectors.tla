------------------------------- MODULE Connectors -------------------------------
(***************************************************************************)
(* The MCP server (backend/mcp_server): a fetch asks Jira, Confluence,     *)
(* Azure DevOps or SharePoint for the text of a source.  Fetches run in    *)
(* threads, in the executor of import_service or in the pool of the        *)
(* synchronous endpoints, so that they share the cache of connectors and   *)
(* the directory uploads/temp_sp.  A SharePoint fetch tries four ways to   *)
(* get at documents, one after the other.  Of a text the model has the     *)
(* name of its file and where the bytes came from.                         *)
(***************************************************************************)
EXTENDS Naturals, FiniteSets

CONSTANTS
    Fetches,        \* fetches that may be under way together
    Sources,        \* what they may ask
    Folders,        \* folders of the SharePoint site
    FileNames,      \* names of supported files in them
    remote,         \* Folders -> the files that SharePoint has there
    uploaded,       \* Folders -> the files that uploads/sharepoint has there
    Targets,        \* files that a path may name; NoFile: it names the folder
    MaxUrls,        \* urls_to_try, three in the code
    NoFile

Cached == {"jira", "confluence"}        \* the sources with a connector
LoginPage == "login page"               \* a 200 answer that is not the file

ASSUME ConnectorsAssumption ==
    /\ Sources \subseteq Cached \cup {"ado", "sharepoint"}
    /\ {remote, uploaded} \subseteq [Folders -> SUBSET FileNames]
    /\ Targets \subseteq FileNames \cup {NoFile} /\ NoFile \notin FileNames
    /\ {NoFile, LoginPage} \cap Folders = {} /\ NoFile # LoginPage
    /\ MaxUrls \in Nat \ {0}

VARIABLES
    temporary,      \* FileNames -> where the bytes of uploads/temp_sp/name came from
    connectors,     \* _connector_cache
    constructed,    \* Cached -> connectors constructed
    audited,        \* sources with a file in storage/metadata
    fetch           \* Fetches -> the fetch

fetchVars == <<temporary, connectors, constructed, audited, fetch>>
cacheOfConnectors == <<connectors, constructed>>

Unasked ==
    [pc |-> "unasked", source |-> "", folder |-> "", target |-> NoFile, token |-> FALSE,
     listed |-> {}, left |-> {}, urls |-> 0, texts |-> {}]

FetchInit ==
    /\ temporary = [name \in FileNames |-> NoFile]
    /\ connectors = {}
    /\ constructed = [s \in Cached |-> 0]
    /\ audited = {}
    /\ fetch = [f \in Fetches |-> Unasked]

In(f, pc) == fetch[f].pc = pc
Update(f, new) == fetch' = [fetch EXCEPT ![f] = new]
GoTo(f, pc) == Update(f, [fetch[f] EXCEPT !.pc = pc])
Refuse(f) == Update(f, [fetch[f] EXCEPT !.pc = "refused", !.texts = {}])

\* _dispatch
Dispatch(f) ==
    /\ In(f, "unasked")
    /\ \E s \in Sources, folder \in Folders, target \in Targets, token \in BOOLEAN :
          Update(f, [Unasked EXCEPT !.source = s, !.folder = folder, !.target = target, !.token = token,
                                    !.pc = CASE s \in Cached -> "connector"
                                             [] s = "ado" -> "ask"
                                             [] s = "sharepoint" -> "verify"])
    /\ UNCHANGED <<temporary, cacheOfConnectors, audited>>

-----------------------------------------------------------------------------
\* Jira, Confluence, Azure DevOps

\* get_connector: is it in the cache? ...
LookUpConnector(f) ==
    /\ In(f, "connector")
    /\ GoTo(f, IF fetch[f].source \in connectors THEN "ask" ELSE "construct")
    /\ UNCHANGED <<temporary, cacheOfConnectors, audited>>

\* ... if not, one is constructed and put there.  Incomplete credentials, or no answer: an error.
ConstructConnector(f) ==
    /\ In(f, "construct")
    /\ \/ /\ connectors' = connectors \cup {fetch[f].source}
          /\ constructed' = [constructed EXCEPT ![fetch[f].source] = @ + 1]
          /\ GoTo(f, "ask")
       \/ Refuse(f) /\ UNCHANGED cacheOfConnectors
    /\ UNCHANGED <<temporary, audited>>

\* fetch_issue with its comments, fetch_page, fetch_work_item
AskSource(f) ==
    /\ In(f, "ask")
    /\ \/ GoTo(f, IF fetch[f].source \in Cached THEN "audit" ELSE "answered")
       \/ Refuse(f)
    /\ UNCHANGED <<temporary, cacheOfConnectors, audited>>

\* _store_metadata; save_metadata logs an error of the disk and goes on.
StoreMetadata(f) ==
    /\ In(f, "audit")
    /\ audited' \in {audited, audited \cup {fetch[f].source}}
    /\ GoTo(f, "answered")
    /\ UNCHANGED <<temporary, cacheOfConnectors>>

-----------------------------------------------------------------------------
\* SharePoint: what is at the path?  (connect_and_verify)

\* Files are told apart by their names without the extension.
Wanted(f, files) == IF fetch[f].target = NoFile THEN files ELSE files \cap {fetch[f].target}

Found(f, files, way) == Update(f, [fetch[f] EXCEPT !.listed = files, !.left = files, !.pc = way])

\* With a token: the site, its drive and the folder, where there may be no file at all.
VerifyByGraph(f) ==
    /\ In(f, "verify") /\ fetch[f].token
    /\ \/ Found(f, Wanted(f, remote[fetch[f].folder]), "graph")
       \/ Refuse(f)
    /\ UNCHANGED <<temporary, cacheOfConnectors, audited>>

VerifyByRest(f) ==
    /\ In(f, "verify") /\ ~fetch[f].token
    /\ Wanted(f, remote[fetch[f].folder]) # {}
    /\ Found(f, Wanted(f, remote[fetch[f].folder]), "http")
    /\ UNCHANGED <<temporary, cacheOfConnectors, audited>>

\* Nothing there, or an error, and uploads/sharepoint has the last word.
VerifyByDirectory(f) ==
    /\ In(f, "verify") /\ ~fetch[f].token
    /\ IF Wanted(f, uploaded[fetch[f].folder]) # {}
       THEN Found(f, Wanted(f, uploaded[fetch[f].folder]), "http")
       ELSE Refuse(f)
    /\ UNCHANGED <<temporary, cacheOfConnectors, audited>>

-----------------------------------------------------------------------------
\* SharePoint: the documents (fetch_folder_documents)

File(f) == CHOOSE name \in fetch[f].left : TRUE
Skipped(f) == [fetch[f] EXCEPT !.left = @ \ {File(f)}, !.urls = 0]

\* uploads/temp_sp/name belongs to all fetches.
Save(f, from, pc) ==
    /\ temporary' = [temporary EXCEPT ![File(f)] = from]
    /\ GoTo(f, pc)

Parsed(f, way) ==
    [Skipped(f) EXCEPT !.pc = way,
                       !.texts = @ \cup {[file |-> File(f), from |-> temporary[File(f)], way |-> way]}]

\* The url is made of the path, so that there is none for a path that names a file.
DownloadByGraph(f) ==
    /\ In(f, "graph") /\ fetch[f].left # {}
    /\ \/ fetch[f].target = NoFile /\ Save(f, fetch[f].folder, "parse graph")
       \/ Update(f, Skipped(f)) /\ UNCHANGED temporary
    /\ UNCHANGED <<cacheOfConnectors, audited>>

ParseFromGraph(f) ==
    /\ In(f, "parse graph")
    /\ \/ Update(f, Parsed(f, "graph"))
       \/ Update(f, [Skipped(f) EXCEPT !.pc = "graph"])     \* no text in it
    /\ UNCHANGED <<temporary, cacheOfConnectors, audited>>

NextUrl_Same(f) == [fetch[f] EXCEPT !.pc = "http"]
NextUrl(f) ==
    IF fetch[f].urls + 1 < MaxUrls THEN [fetch[f] EXCEPT !.urls = @ + 1, !.pc = "http"]
                                   ELSE [Skipped(f) EXCEPT !.pc = "http"]

\* Without credentials; any answer of status 200 is taken for the file.  An exception skips the file.
Served(f) == {LoginPage} \cup {folder \in {fetch[f].folder} : File(f) \in remote[folder]}

DownloadByHttp(f) ==
    /\ In(f, "http") /\ fetch[f].left # {}
    /\ \/ \E from \in Served(f) : Save(f, from, "parse http")
       \/ Update(f, NextUrl(f)) /\ UNCHANGED temporary
       \/ Update(f, Skipped(f)) /\ UNCHANGED temporary
    /\ UNCHANGED <<cacheOfConnectors, audited>>

ParseFromHttp(f) ==
    /\ In(f, "parse http")
    /\ \/ Update(f, Parsed(f, "http"))
       \/ Update(f, NextUrl(f))                             \* hardly any text in it
    /\ UNCHANGED <<temporary, cacheOfConnectors, audited>>

\* A way is tried only if there is no text yet.
Way(f, next) == IF fetch[f].texts = {} THEN next ELSE "answered"

\* A bug: http is tried as well.
EndOfGraph_GoesOn(f) ==
    /\ In(f, "graph") /\ fetch[f].left = {}
    /\ Update(f, [fetch[f] EXCEPT !.pc = "http", !.left = fetch[f].listed])
    /\ UNCHANGED <<temporary, cacheOfConnectors, audited>>

EndOfGraph(f) ==
    /\ In(f, "graph") /\ fetch[f].left = {}
    /\ Update(f, [fetch[f] EXCEPT !.pc = Way(f, "http"), !.left = fetch[f].listed])
    /\ UNCHANGED <<temporary, cacheOfConnectors, audited>>

EndOfHttp(f) ==
    /\ In(f, "http") /\ fetch[f].left = {}
    /\ GoTo(f, Way(f, "directory"))
    /\ UNCHANGED <<temporary, cacheOfConnectors, audited>>

\* Whatever has text of the path in uploads/sharepoint, listed or not
ReadDirectory(f) ==
    /\ In(f, "directory")
    /\ \E files \in SUBSET Wanted(f, uploaded[fetch[f].folder]) :
          Update(f, [fetch[f] EXCEPT
                        !.pc = IF files = {} THEN "anywhere" ELSE "answered",
                        !.texts = {[file |-> name, from |-> fetch[f].folder, way |-> "directory"] : name \in files}])
    /\ UNCHANGED <<temporary, cacheOfConnectors, audited>>

\* Any file under uploads with the name the path ends in
NamedLike(name) ==
    {folder \in Folders : name \in uploaded[folder]} \cup ({temporary[name]} \ {NoFile})

SearchUploads(f) ==
    /\ In(f, "anywhere")
    /\ \/ /\ fetch[f].target # NoFile
          /\ \E from \in NamedLike(fetch[f].target) :
                Update(f, [fetch[f] EXCEPT !.pc = "answered",
                              !.texts = {[file |-> fetch[f].target, from |-> from, way |-> "anywhere"]}])
       \/ Refuse(f)
    /\ UNCHANGED <<temporary, cacheOfConnectors, audited>>

-----------------------------------------------------------------------------
Verify(f) == VerifyByGraph(f) \/ VerifyByRest(f) \/ VerifyByDirectory(f)
FetchDocuments(f) ==
    \/ DownloadByGraph(f) \/ ParseFromGraph(f) \/ EndOfGraph(f)
    \/ DownloadByHttp(f) \/ ParseFromHttp(f) \/ EndOfHttp(f)
    \/ ReadDirectory(f) \/ SearchUploads(f)

FetchStep(f) ==
    \/ LookUpConnector(f) \/ ConstructConnector(f) \/ AskSource(f) \/ StoreMetadata(f)
    \/ Verify(f) \/ FetchDocuments(f)

FetchNext == \E f \in Fetches : Dispatch(f) \/ FetchStep(f)

FetchSpec == FetchInit /\ [][FetchNext]_fetchVars

\* The client of Jira is made without a timeout, and asks for the server's version when it is made.
WaitsForJira(f) == fetch[f].source = "jira" /\ fetch[f].pc \in {"construct", "ask"}

\* Threads are scheduled, and every call of another system than Jira has a timeout.
FetchFairness == \A f \in Fetches : WF_fetchVars(~WaitsForJira(f) /\ FetchStep(f))

-----------------------------------------------------------------------------
(***************************************************************************)
(* The documents of an answer were all got at in one way: a later way, up  *)
(* to any file under uploads that has the name, is tried only when no      *)
(* earlier one gave a text, whatever happened to the single files          *)
(* (fetch_folder_documents); and there is a document in the answer.        *)
(***************************************************************************)
AnswersComeOneWay ==
    \A f \in Fetches : In(f, "answered") /\ fetch[f].source = "sharepoint" =>
        Cardinality({t.way : t \in fetch[f].texts}) = 1

(***************************************************************************)
(* A fetch ends, however many ways and addresses it has to try and whatever*)
(* other fetches do meanwhile, one that waits for a silent Jira for ever   *)
(* included; only that one does not.                                       *)
(***************************************************************************)
FetchesEnd ==
    []<>(\A f \in Fetches : fetch[f].pc \in {"unasked", "answered", "refused"} \/ WaitsForJira(f))

(***************************************************************************)
(* POST /fetch promises to "Download supported files in the SharePoint     *)
(* document path and return extracted plain text": the text of no other    *)
(* folder is in the answer.                                                *)
(***************************************************************************)
TextsAreOfThePath ==
    \A f \in Fetches : In(f, "answered") => \A t \in fetch[f].texts : t.from \in Folders => t.from = fetch[f].folder

(***************************************************************************)
(* The comment at _connector_cache: "each connector is initialised only    *)
(* once per process".                                                      *)
(***************************************************************************)
InitialisedOnce == \A s \in Cached : constructed[s] <= 1
=============================================================================
