----------------------------- MODULE AiResponder -----------------------------
(***************************************************************************)
(* The AI responder answering one visitor: the visitor lock in Redis, the   *)
(* walk through the project's workflow, and the conversation's metadata,     *)
(* which it shares with the worker and with updateContext.  Each visitor     *)
(* message starts one run of handleVisitorMessage.  The visitor has one       *)
(* conversation.  Status edits, by agents or by a tool, save the row as they  *)
(* read it, too; they are left out.                                          *)
(***************************************************************************)
EXTENDS Integers, Sequences

CONSTANTS
    Messages,   \* the visitor's messages, each the run it starts
    Pages,      \* the pages the visitor opens
    Nodes,      \* nodes of the workflow
    Kind,       \* their types
    StartNode,  \* the first node of type start, NoNode without one
    Edges,      \* the workflow's edges, in their order
    Handles,    \* the handles edges leave from
    NoMessage, NoNode

DefaultHandle == "default"

ASSUME AiAssumption ==
    /\ NoMessage \notin Messages
    /\ NoNode \notin Nodes
    /\ Kind \in [Nodes -> {"start", "action", "condition", "switch", "llm"}]
    /\ StartNode \in Nodes \union {NoNode}
    /\ Edges \in Seq([source : Nodes, handle : Handles, target : Nodes])

VARIABLES
    run,       \* the run of each message
    lock,      \* holder of ai:lock:visitor:<uid>, NoMessage if the key is gone
    stored,    \* messages the worker has stored
    metadata,  \* the conversation's metadata
    update,    \* the updateContext call of each page
    outlived,  \* history: runs at work whose lock expired under them
    disturbed, \* history: runs at work whose metadata somebody else may have written
    raced      \* history: pages saved while an older copy was about to be written

aiVars == <<run, lock, stored, metadata, update, outlived, disturbed, raced>>

-----------------------------------------------------------------------------
(* Types *)

\* workflowState.currentNodeId and urlHistory.
Metadata == [position : Nodes \union {NoNode}, pages : SUBSET Pages]

\* carried is the metadata the message brings along; read and fresh are what the
\* run loaded at its start and before it writes; again: it goes on after writing.
Run == [pc : {"unsent", "received", "locked", "walking", "merging", "writing",
              "releasing", "skipped", "done"},
        carried : SUBSET Pages, read : Metadata, fresh : Metadata,
        node : Nodes \union {NoNode}, next : Nodes \union {NoNode}, again : BOOLEAN]

Update == [pc : {"none", "sent", "read", "saved", "ignored"}, copy : Metadata]

AiTypeOK ==
    /\ run \in [Messages -> Run]
    /\ lock \in Messages \union {NoMessage}
    /\ stored \subseteq Messages
    /\ metadata \in Metadata
    /\ update \in [Pages -> Update]
    /\ outlived \subseteq Messages
    /\ disturbed \subseteq Messages
    /\ raced \subseteq Pages

EmptyMetadata == [position |-> NoNode, pages |-> {}]

\* A run that holds nothing in memory (any more).
RunAt(pc, carried) ==
    [pc |-> pc, carried |-> carried, read |-> EmptyMetadata, fresh |-> EmptyMetadata,
     node |-> NoNode, next |-> NoNode, again |-> FALSE]

AiInit ==
    /\ run = [m \in Messages |-> RunAt("unsent", {})]
    /\ lock = NoMessage
    /\ stored = {}
    /\ metadata = EmptyMetadata
    /\ update = [p \in Pages |-> [pc |-> "none", copy |-> EmptyMetadata]]
    /\ outlived = {}
    /\ disturbed = {}
    /\ raced = {}

-----------------------------------------------------------------------------
(* The workflow engine *)

\* Taking an edge's handle for its target.
HandleOfEdge(n, handles) ==
    LET found == {i \in DOMAIN Edges : Edges[i].source = n /\ Edges[i].handle \in handles}
        first == {Edges[i].handle : i \in {j \in found : \A k \in found : j <= k}}
    IN  IF first = {} THEN NoNode ELSE CHOOSE h \in first : TRUE

\* getNextNodeId: the first edge that leaves n from one of the handles.
NextNode(n, handles) ==
    LET found == {i \in DOMAIN Edges : Edges[i].source = n /\ Edges[i].handle \in handles}
        first == {Edges[i].target : i \in {j \in found : \A k \in found : j <= k}}
    IN  IF first = {} THEN NoNode ELSE CHOOSE t \in first : TRUE

\* A decision without an edge of its own takes the default one (switch only), or
\* else any.
Routed(n, decision) ==
    LET named   == NextNode(n, {decision})
        default == NextNode(n, {DefaultHandle})
    IN  IF named # NoNode THEN named
        ELSE IF Kind[n] = "switch" /\ default # NoNode THEN default
        ELSE NextNode(n, Handles)

Routing(n) == n # NoNode /\ Kind[n] \in {"condition", "switch"}

\* executeStep after an answer: a routing node that was answered instead of
\* routed ends the workflow.
AfterText(n) == IF n = NoNode \/ Routing(n) THEN NoNode ELSE NextNode(n, Handles)

\* The node a run starts at.
Resumed(position) ==
    IF position # NoNode THEN position
    ELSE IF StartNode = NoNode THEN NoNode
    ELSE NextNode(StartNode, Handles)

-----------------------------------------------------------------------------
(* A message arrives: the gateway emits visitor.message.received, for the    *)
(* producer of the worker's job and for the AI responder.                    *)

Active(m) == run[m].pc \in {"locked", "walking", "merging", "writing", "releasing"}

Visited == {p \in Pages : update[p].pc # "none"}

Receive(m) ==
    /\ run[m].pc = "unsent"
    /\ run' = [run EXCEPT ![m] = RunAt("received", Visited)]
    /\ UNCHANGED <<lock, stored, metadata, update, outlived, disturbed, raced>>

\* The worker stores the message, and the metadata it carries in place of the
\* conversation's.
StoreMessage(m) ==
    /\ run[m].pc # "unsent" /\ m \notin stored
    /\ stored' = stored \union {m}
    /\ metadata' = [position |-> NoNode, pages |-> run[m].carried]
    /\ disturbed' = disturbed \union {r \in Messages : Active(r)}
    /\ UNCHANGED <<run, lock, update, outlived, raced>>

-----------------------------------------------------------------------------
(* The visitor lock *)

\* SET without NX.
LockTaken == TRUE

LockFree == lock = NoMessage

\* Another run is still at work, so whatever m reads may change.
Contested(m) == \E r \in Messages \ {m} : Active(r)

AcquireLock(m) ==
    /\ run[m].pc = "received"
    /\ LockFree
    /\ lock' = m
    /\ run' = [run EXCEPT ![m] = [@ EXCEPT !.pc = "locked"]]
    /\ disturbed' = IF Contested(m) THEN disturbed \union {m} ELSE disturbed
    /\ UNCHANGED <<stored, metadata, update, outlived, raced>>

\* Somebody else holds the lock, or Redis does not answer, with the command
\* executed or not.
SkipMessage(m) ==
    /\ run[m].pc = "received"
    /\ run' = [run EXCEPT ![m] = [@ EXCEPT !.pc = "skipped"]]
    /\ \/ UNCHANGED lock
       \/ LockFree /\ lock' = m
    /\ UNCHANGED <<stored, metadata, update, outlived, disturbed, raced>>

\* m is over, and with it its history.
Finish(m) ==
    /\ run' = [run EXCEPT ![m] = RunAt("done", run[m].carried)]
    /\ outlived' = outlived \ {m}
    /\ disturbed' = disturbed \ {m}
    /\ UNCHANGED <<stored, metadata, update, raced>>

LockAfterRelease(m) == IF lock = m THEN NoMessage ELSE lock

ReleaseLock(m) ==
    /\ run[m].pc = "releasing"
    /\ lock' = LockAfterRelease(m)
    /\ Finish(m)

\* EX: the key expires, whether its run is over or not.
ExpireLock ==
    /\ lock # NoMessage
    /\ outlived' = IF Active(lock) THEN outlived \union {lock} ELSE outlived
    /\ lock' = NoMessage
    /\ UNCHANGED <<run, stored, metadata, update, disturbed, raced>>

-----------------------------------------------------------------------------
(* _processMessage *)

\* The visitor opted out, an agent is online, the model has no answer after its
\* last turn, or something throws: the run is over.
EndRun(m) ==
    /\ run[m].pc \in {"locked", "walking", "merging", "writing"}
    /\ run' = [run EXCEPT ![m] = RunAt("releasing", run[m].carried)]
    /\ UNCHANGED <<lock, stored, metadata, update, outlived, disturbed, raced>>

ReadConversation(m) ==
    /\ run[m].pc = "locked"
    /\ stored # {}
    /\ run' = [run EXCEPT ![m] = [@ EXCEPT !.pc = "walking", !.read = metadata,
                                           !.node = Resumed(metadata.position)]]
    /\ disturbed' = IF Contested(m) THEN disturbed \union {m} ELSE disturbed \ {m}
    /\ UNCHANGED <<lock, stored, metadata, update, outlived, raced>>

AtAction(m) == run[m].node # NoNode /\ Kind[run[m].node] = "action"

\* An action node runs its tool; a tool that fails changes nothing here.
RunAction(m) ==
    /\ run[m].pc = "walking"
    /\ AtAction(m)
    /\ run' = [run EXCEPT ![m] = [@ EXCEPT !.node = NextNode(run[m].node, Handles)]]
    /\ UNCHANGED <<lock, stored, metadata, update, outlived, disturbed, raced>>

\* The model answers, after up to three turns of tools, and the answer is stored.
Answer(m) ==
    /\ run[m].pc = "walking"
    /\ ~AtAction(m)
    /\ run' = [run EXCEPT ![m] = [@ EXCEPT !.pc = "merging", !.again = FALSE,
                                           !.next = AfterText(run[m].node)]]
    /\ UNCHANGED <<lock, stored, metadata, update, outlived, disturbed, raced>>

\* At a routing node the model decides where to go on.
Route(m, decision) ==
    /\ run[m].pc = "walking"
    /\ Routing(run[m].node)
    /\ run' = [run EXCEPT ![m] = [@ EXCEPT !.pc = "merging", !.again = TRUE,
                                           !.next = Routed(run[m].node, decision)]]
    /\ UNCHANGED <<lock, stored, metadata, update, outlived, disturbed, raced>>

\* Merging with the metadata of the start of the run.
FirstRead(m) == run[m].read

Refetched(m) == metadata

\* Re-fetch fresh metadata to prevent race conditions.
Refetch(m) ==
    /\ run[m].pc = "merging"
    /\ run' = [run EXCEPT ![m] = [@ EXCEPT !.pc = "writing", !.fresh = Refetched(m)]]
    /\ UNCHANGED <<lock, stored, metadata, update, outlived, disturbed, raced>>

\* Without a node (no workflow, or none that leads anywhere) the position stays.
Merged(m) ==
    IF run[m].node = NoNode THEN run[m].fresh
                            ELSE [run[m].fresh EXCEPT !.position = run[m].next]

\* After a decision the run starts over at the next node.
WriteMetadata(m) ==
    /\ run[m].pc = "writing"
    /\ metadata' = Merged(m)
    /\ run' = [run EXCEPT ![m] = RunAt(IF run[m].again THEN "locked" ELSE "releasing",
                                       run[m].carried)]
    /\ UNCHANGED <<lock, stored, update, outlived, disturbed, raced>>

\* The process of the run goes down, or the lock cannot be released.
Crash(m) ==
    /\ Active(m)
    /\ Finish(m)
    /\ UNCHANGED lock

-----------------------------------------------------------------------------
(* updateContext, for every page the visitor opens *)

Navigate(p) ==
    /\ update[p].pc = "none"
    /\ update' = [update EXCEPT ![p] = [@ EXCEPT !.pc = "sent"]]
    /\ UNCHANGED <<run, lock, stored, metadata, outlived, disturbed, raced>>

ReadContext(p) ==
    /\ update[p].pc = "sent"
    /\ stored # {}
    /\ update' = [update EXCEPT ![p] = [pc |-> "read", copy |-> metadata]]
    /\ UNCHANGED <<run, lock, stored, metadata, outlived, disturbed, raced>>

\* There is no conversation yet, the call fails or its process goes down.
IgnoreContext(p) ==
    /\ update[p].pc \in {"sent", "read"}
    /\ update' = [update EXCEPT ![p] = [pc |-> "ignored", copy |-> EmptyMetadata]]
    /\ UNCHANGED <<run, lock, stored, metadata, outlived, disturbed, raced>>

\* Somebody is about to write metadata that was read before p was saved.
OlderCopy(p) ==
    \/ \E m \in Messages : run[m].pc = "writing"
    \/ \E q \in Pages \ {p} : update[q].pc = "read"
    \/ \E m \in Messages \ stored : run[m].pc # "unsent" /\ p \notin run[m].carried

\* The whole row is saved, with the position as it was read.
SaveContext(p) ==
    /\ update[p].pc = "read"
    /\ metadata' = [update[p].copy EXCEPT !.pages = @ \union {p}]
    /\ update' = [update EXCEPT ![p] = [pc |-> "saved", copy |-> EmptyMetadata]]
    /\ disturbed' = disturbed \union {r \in Messages : Active(r)}
    /\ raced' = IF OlderCopy(p) THEN raced \union {p} ELSE raced
    /\ UNCHANGED <<run, lock, stored, outlived>>

-----------------------------------------------------------------------------

Process(m) ==
    \/ AcquireLock(m) \/ SkipMessage(m) \/ ReadConversation(m) \/ RunAction(m)
    \/ Answer(m) \/ Refetch(m) \/ WriteMetadata(m) \/ EndRun(m) \/ ReleaseLock(m)
    \/ \E decision \in Handles : Route(m, decision)

AiNext ==
    \/ \E m \in Messages : Receive(m) \/ StoreMessage(m) \/ Process(m) \/ Crash(m)
    \/ \E p \in Pages : Navigate(p) \/ ReadContext(p) \/ IgnoreContext(p) \/ SaveContext(p)
    \/ ExpireLock

AiSpec == AiInit /\ [][AiNext]_aiVars

-----------------------------------------------------------------------------
(* Properties *)

\* Two runs of one visitor are only ever at work together when the lock of one
\* of them expired under it (acquireLock, releaseLock).
OneRunUnlessExpired ==
    \A r, s \in Messages : Active(r) /\ Active(s) /\ r # s => r \in outlived \/ s \in outlived

\* As long as neither a message was stored nor a page saved since a run read the
\* conversation, and no other run was at work with it, the workflow is where
\* the run found it, and its write takes the next step.
PositionProtected ==
    \A r \in Messages :
        /\ run[r].pc \in {"walking", "merging", "writing"}
        /\ r \notin disturbed /\ r \notin outlived
        => metadata.position = run[r].read.position

\* A page that updateContext saved is lost only if it was saved between the read
\* and the write of another: fetching the metadata again before writing keeps
\* pages that were saved while the model was thinking.
PagesKept == \A p \in Pages : update[p].pc = "saved" => p \in metadata.pages \/ p \in raced

\* .gtd/CODEBASE.md: workflowState.currentNodeId "tracks position across
\* messages", so only a run that comes to the workflow's end clears it.
PositionTracked ==
    [][ metadata.position # NoNode /\ metadata'.position = NoNode
        => \E m \in Messages : run[m].pc = "writing" /\ run[m].next = NoNode ]_aiVars

=============================================================================
