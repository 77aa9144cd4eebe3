------------------------------ MODULE MCDocuments ------------------------------
(***************************************************************************)
(* The way of documents: what comes in over the MCP server, preprocessing, *)
(* retrieval, and the export, which share no state.  A behaviour looks at  *)
(* one of them, with all its requests, and leaves the others as they begin.*)
(***************************************************************************)
EXTENDS Preprocessing, RagIndex, Delivery, Connectors

VARIABLE turn

documentVars == <<preVars, ragVars, deliveryVars, fetchVars, turn>>

Preprocesses(A) == turn = "preprocess" /\ A /\ UNCHANGED <<ragVars, deliveryVars, fetchVars, turn>>
Retrieves(A) == turn = "retrieve" /\ A /\ UNCHANGED <<preVars, deliveryVars, fetchVars, turn>>
\* Epics are told apart by their names only within an export: that of its first story is called e1.
NamesInOrder == exports' # exports => request'.epics[1] = "e1"
Delivers(A) == turn = "deliver" /\ A /\ UNCHANGED <<preVars, ragVars, fetchVars, turn>>
Imports(A) == turn = "fetch" /\ A /\ UNCHANGED <<preVars, ragVars, deliveryVars, turn>>

\* Retrieval that is left alone has one start.
DocumentsInit ==
    /\ turn \in {"preprocess", "retrieve", "deliver", "fetch"}
    /\ PreInit /\ DeliveryInit /\ FetchInit
    /\ RagInit /\ (turn # "retrieve" => collection = "absent" /\ rows = {})

DocumentsNext == Preprocesses(PreNext) \/ Retrieves(RagNext)
                 \/ Delivers(DeliveryNext /\ NamesInOrder) \/ Imports(FetchNext)

DocumentsSpec == DocumentsInit /\ [][DocumentsNext]_documentVars

\* Runs, requests of retrieval and fetches have the same names here.
ASSUME SameNames == Runs = Callers /\ Callers = Fetches

\* The fairness of the modules, in one formula because a behaviour has only one turn
FairDocumentsSpec ==
    /\ DocumentsSpec
    /\ \A n \in Runs : WF_documentVars(\/ Preprocesses(RunStep(n))
                                       \/ Retrieves(CallStep(n))
                                       \/ Imports(~WaitsForJira(n) /\ FetchStep(n)))

\* SharePoint has every file in every folder, uploads/sharepoint only in one.
Remote == [folder \in Folders |-> FileNames]
Uploaded == [folder \in Folders |-> IF folder = "A" THEN {} ELSE FileNames]
=============================================================================
