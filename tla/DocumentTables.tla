--------------------------- MODULE DocumentTables ---------------------------
(***************************************************************************)
(* The tables of document control and the requests that read and write     *)
(* them, as one process serves them (DocumentControl) or several           *)
(* (DocumentReplicas).                                                     *)
(***************************************************************************)
EXTENDS DocumentWorkflow

CONSTANTS
    Requests,       \* requests that may be in progress at the same time
    MaxVersions     \* bound on the number of rows, for model checking

ASSUME MaxVersionsAssumption == MaxVersions \in Nat

VARIABLES
    registered,     \* documents that have been created
    documents,      \* the documents table
    versions        \* the document_versions table

TablesOK ==
    /\ registered \subseteq Docs
    /\ documents \in [Docs -> Document]
    /\ versions \in Seq(Version)

\* No document has been created; the row of one that has not is no document's.
EmptyTables ==
    /\ registered = {}
    /\ documents = [d \in Docs |-> [NewDocument(FALSE, FALSE) EXCEPT !.is_active = FALSE]]
    /\ versions = <<>>

\* _get_document_in_org / _document_or_404: a document the handler may act on.
Available(d) == d \in registered /\ documents[d].is_active

\* The insertion of a document, which reads nothing that others write.
Insert(d, review, retention) ==
    /\ d \notin registered
    /\ registered' = registered \cup {d}
    /\ documents' = [documents EXCEPT ![d] = NewDocument(review, retention)]

----------------------------------------------------------------------------
(* Properties *)

\* At most one version of a document is in force.  approve(): "Approving a
\* revision supersedes the currently effective version (marked Obsolete) so
\* that exactly one version is effective at a time".  That is so in one process,
\* whatever uploads overlap: approve() supersedes whatever it finds effective.
AtMostOneEffective ==
    \A i, j \in DOMAIN versions :
        /\ versions[i].status = "Effective"
        /\ versions[j].status = "Effective"
        /\ versions[i].document = versions[j].document
        => i = j

=============================================================================
