------------------------------- MODULE Delivery -------------------------------
(***************************************************************************)
(* The export service (backend/export): the stories of one request go to   *)
(* Jira as epics with stories, to Azure DevOps as work items, to one       *)
(* Confluence page, to a SharePoint folder or to a Word or PDF file.  The  *)
(* endpoints call the exporters synchronously on the event loop, so that   *)
(* exports follow each other; what an earlier one left stays.  Any call of *)
(* another system may be rejected, or be carried out and its answer lost;  *)
(* the client library of Jira, which is made with its defaults, then sends *)
(* the same POST again.                                                    *)
(* Of a story the model has its place in the request and its epic's name.  *)
(***************************************************************************)
EXTENDS Naturals, Sequences, FiniteSets

CONSTANTS
    Systems,        \* where exports may go
    MaxStories,     \* bound: stories of a request
    EpicNames,      \* names of epics
    MaxExports,     \* bound: requests
    LinkTypes,      \* link_types_to_try, four in the code
    Resends         \* max_retries of the Jira client, three if nothing is said

Trackers == {"jira", "ado"}

ASSUME DeliveryAssumption ==
    /\ Systems \subseteq Trackers \cup {"confluence", "sharepoint", "file"}
    /\ {MaxStories, MaxExports, LinkTypes} \subseteq Nat \ {0}
    /\ Resends \in Nat

VARIABLES
    issues,     \* what was created in the tracker, in order
    pages,      \* the Confluence pages: the export whose stories each holds
    library,    \* exports with a document in the SharePoint folder
    documents,  \* exports with a file on the disk of the server
    request,    \* [to, epics, linked]: the request; the name of the epic of each story
    step,       \* where the exporter is
    place,      \* the story it is at
    epics,      \* created_epics: name -> issue
    stories,    \* created_stories, created_items: the issue of each
    errors,     \* stories that failed (Azure DevOps)
    tries,      \* link types tried
    resent,     \* times the POST at hand was sent again
    report,     \* the response: [status, count]
    exports     \* requests so far

targets == <<issues, pages, library, documents>>
progress == <<request, place, epics, stories, errors, tries, resent>>
deliveryVars == <<issues, pages, library, documents, request, step, place, epics, stories,
                  errors, tries, resent, report, exports>>

NoReport == [status |-> "none", count |-> 0]

DeliveryInit ==
    /\ issues = << >> /\ pages = << >> /\ library = {} /\ documents = {}
    /\ request = [to |-> "file", epics |-> << >>, linked |-> FALSE]
    /\ step = "reported"
    /\ place = 1 /\ epics = << >> /\ stories = << >> /\ errors = 0 /\ tries = 0 /\ resent = 0
    /\ report = NoReport
    /\ exports = 0

\* POST /export/*; a payload without stories is rejected with 400.
Receive ==
    /\ step = "reported"
    /\ exports < MaxExports
    /\ exports' = exports + 1
    /\ \E to \in Systems, n \in 1..MaxStories, linked \in BOOLEAN :
          /\ \E names \in [1..n -> EpicNames] : request' = [to |-> to, epics |-> names, linked |-> linked]
          /\ step' = CASE to \in {"jira", "confluence"} -> "connect"
                       [] to = "ado" -> "work item"
                       [] OTHER -> "format"
    /\ place' = 1 /\ epics' = << >> /\ stories' = << >> /\ errors' = 0 /\ tries' = 0 /\ resent' = 0
    /\ report' = NoReport
    /\ UNCHANGED targets

Respond(status, count) == report' = [status |-> status, count |-> count] /\ step' = "reported"
Size == Len(request.epics)

\* JiraExporter.__init__, ConfluenceExporter.__init__: an error ends in ExportService.export.
Connect ==
    /\ step = "connect"
    /\ \/ step' = (IF request.to = "jira" THEN "epic" ELSE "page") /\ UNCHANGED report
       \/ Respond("failed", Size)
    /\ UNCHANGED <<targets, progress, exports>>

-----------------------------------------------------------------------------
\* Jira

Epic == request.epics[place]

\* answered, a history variable: the exporter was given the key of the issue
Issue(story, parent, answered) ==
    [export |-> exports, system |-> request.to, epic |-> Epic, story |-> story, parent |-> parent,
     answered |-> answered]
Created(story, parent, answered) == issues' = Append(issues, Issue(story, parent, answered))
Newest == Len(issues) + 1

\* A connection lost, before the POST was carried out or after, or an answer 429 or 503
Resend(story, parent) ==
    /\ resent < Resends /\ resent' = resent + 1
    /\ Created(story, parent, FALSE) \/ UNCHANGED issues
    /\ UNCHANGED <<step, epics, stories, report>>

\* Rejected, or created without an answer
JiraFails(story, parent) ==
    /\ Created(story, parent, FALSE) \/ UNCHANGED issues
    /\ Respond("failed", 0) /\ resent' = 0
    /\ UNCHANGED <<epics, stories>>

EpicCreated ==
    /\ Created(0, 0, TRUE)
    /\ epics' = [name \in DOMAIN epics \cup {Epic} |-> IF name = Epic THEN Newest ELSE epics[name]]
    /\ step' = "story" /\ resent' = 0 /\ UNCHANGED <<stories, report>>

\* A bug: created_epics is not looked at.
CreateEpic_PerStory ==
    /\ step = "epic" /\ place <= Size
    /\ EpicCreated \/ Resend(0, 0) \/ JiraFails(0, 0)
    /\ UNCHANGED <<pages, library, documents, request, place, errors, tries, exports>>

\* One epic per name and request
CreateEpic ==
    /\ step = "epic" /\ place <= Size /\ Epic \notin DOMAIN epics
    /\ EpicCreated \/ Resend(0, 0) \/ JiraFails(0, 0)
    /\ UNCHANGED <<pages, library, documents, request, place, errors, tries, exports>>

FindEpic ==
    /\ step = "epic" /\ place <= Size /\ Epic \in DOMAIN epics
    /\ step' = "story"
    /\ UNCHANGED <<targets, progress, report, exports>>

StoryCreated ==
    /\ Created(place, epics[Epic], TRUE)
    /\ stories' = Append(stories, Newest)
    /\ step' = "link" /\ resent' = 0
    /\ UNCHANGED <<epics, report>>

\* _create_story: a rejection that names the priority or the assignee is tried again without them.
CreateStory ==
    /\ step = "story"
    /\ \/ StoryCreated
       \/ Resend(place, epics[Epic])
       \/ step' = "story again" /\ resent' = 0 /\ UNCHANGED <<issues, epics, stories, report>>
       \/ JiraFails(place, epics[Epic])
    /\ UNCHANGED <<pages, library, documents, request, place, errors, tries, exports>>

CreateStoryAgain ==
    /\ step = "story again"
    /\ StoryCreated \/ Resend(place, epics[Epic]) \/ JiraFails(place, epics[Epic])
    /\ UNCHANGED <<pages, library, documents, request, place, errors, tries, exports>>

MoveOn == place' = place + 1 /\ tries' = 0 /\ step' = "epic"

\* _create_issue_link, if there is an original issue; no link is no error.
Link ==
    /\ step = "link"
    /\ \/ MoveOn
       \/ /\ request.linked /\ tries + 1 < LinkTypes
          /\ tries' = tries + 1
          /\ UNCHANGED <<place, step>>
    /\ UNCHANGED <<targets, request, epics, stories, errors, resent, report, exports>>

JiraCompletes ==
    /\ step = "epic" /\ place > Size
    /\ Respond("completed", Len(stories))
    /\ UNCHANGED <<targets, progress, exports>>

-----------------------------------------------------------------------------
\* Azure DevOps: an error is noted, and the next story is tried.  Nothing is sent again.

CreateWorkItem ==
    /\ step = "work item" /\ place <= Size
    /\ \/ Created(place, 0, TRUE) /\ stories' = Append(stories, Newest) /\ UNCHANGED errors
       \/ /\ Created(place, 0, FALSE) \/ UNCHANGED issues
          /\ errors' = errors + 1 /\ UNCHANGED stories
    /\ place' = place + 1
    /\ UNCHANGED <<pages, library, documents, request, step, epics, tries, resent, report, exports>>

AzureStatus_ByCreated == IF stories = << >> THEN "failed" ELSE "completed"
AzureStatus ==
    IF stories = << >> THEN "failed" ELSE IF errors = 0 THEN "completed" ELSE "in_progress"

AzureReports ==
    /\ step = "work item" /\ place > Size
    /\ Respond(AzureStatus, Len(stories))
    /\ UNCHANGED <<targets, progress, exports>>

-----------------------------------------------------------------------------
\* One document

\* The page of page_id is overwritten, else there is a new one.
WritePage ==
    /\ step = "page"
    /\ \/ /\ \/ pages' = Append(pages, exports)
             \/ \E i \in DOMAIN pages : pages' = [pages EXCEPT ![i] = exports]
          /\ Respond("completed", Size) \/ Respond("failed", Size)
       \/ Respond("failed", Size) /\ UNCHANGED pages
    /\ UNCHANGED <<issues, library, documents, progress, exports>>

\* WordExporter, PDFExporter
Format ==
    /\ step = "format"
    /\ \/ /\ documents' = documents \cup {exports}
          /\ IF request.to = "sharepoint" THEN step' = "verify" /\ UNCHANGED report
                                          ELSE Respond("completed", Size)
       \/ Respond("failed", Size) /\ UNCHANGED documents
    /\ UNCHANGED <<issues, pages, library, progress, exports>>

\* SharePointExporter: the folder is looked at, with whatever result, and the export is complete.
VerifyFolder ==
    /\ step = "verify"
    /\ Respond("completed", Size)
    /\ UNCHANGED <<targets, progress, exports>>

-----------------------------------------------------------------------------
ExportStep ==
    \/ Connect \/ CreateEpic \/ FindEpic \/ CreateStory \/ CreateStoryAgain \/ Link \/ JiraCompletes
    \/ CreateWorkItem \/ AzureReports
    \/ WritePage \/ Format \/ VerifyFolder

DeliveryNext == Receive \/ ExportStep

DeliverySpec == DeliveryInit /\ [][DeliveryNext]_deliveryVars

-----------------------------------------------------------------------------
IssuesOf(story) == {i \in DOMAIN issues : issues[i].export = exports /\ issues[i].story = story}
AnsweredOf(story) == {i \in IssuesOf(story) : issues[i].answered}

(***************************************************************************)
(* "completed" means all of it (JiraExporter.export, AzureExporter.export):*)
(* the answer has an issue of this export for each story, in the order of  *)
(* the stories.  In Azure DevOps a story has no other.  In Jira it may,    *)
(* where an answer was lost, but all it has are under the epic of its      *)
(* name, the one of this export whose creation was answered.               *)
(***************************************************************************)
CompletedIsWhole ==
    step = "reported" /\ report.status = "completed" /\ request.to \in Trackers =>
        /\ report.count = Size /\ Len(stories) = Size
        /\ \A s \in 1..Size : AnsweredOf(s) = {stories[s]}
        /\ request.to = "ado" => \A s \in 1..Size : IssuesOf(s) = {stories[s]}
        /\ request.to = "jira" =>
              \A s \in 1..Size : \E e \in DOMAIN issues :
                  /\ {i \in AnsweredOf(0) : issues[i].epic = request.epics[s]} = {e}
                  /\ \A i \in IssuesOf(s) : issues[i].parent = e

SameThing(i, j) ==
    issues[i].export = issues[j].export /\ issues[i].story = issues[j].story /\ issues[i].epic = issues[j].epic

(***************************************************************************)
(* An export creates a second issue for a story, or a second epic of one   *)
(* name, only in Jira and only after an earlier one of which the exporter  *)
(* had no answer: what was answered is never created again, neither by the *)
(* client library nor by the second attempt of _create_story, nor when     *)
(* several stories have the epic (created_epics).  Another export of the   *)
(* same stories creates all of them again.                                 *)
(***************************************************************************)
NothingTwice ==
    \A i, j \in DOMAIN issues :
        i < j /\ SameThing(i, j) => issues[j].system = "jira" /\ ~issues[i].answered

(***************************************************************************)
(* SharePointExporter.export is to "Export user stories to SharePoint      *)
(* document library folder.": where it reports completion, the folder has  *)
(* the document.                                                           *)
(***************************************************************************)
UploadIsReal ==
    step = "reported" /\ report.status = "completed" /\ request.to = "sharepoint" => exports \in library

=============================================================================
