--------------------------- MODULE Conversations ---------------------------
(***************************************************************************)
(* The handlers of /v1/conversations: a conversation, its metadata and the *)
(* items linked to it.  A handler checks that the conversation exists and  *)
(* then works on the stores call by call; others run between two calls and *)
(* every call may fail.  Items exist on their own and may be linked to     *)
(* several conversations.                                                  *)
(***************************************************************************)
EXTENDS OpenAIRouter

CONSTANTS CWorkloads,  \* which handlers are called, with what
          MaxMetadata, \* MAX_METADATA_PROPERTIES
          MaxItems     \* MAX_ITEMS_PER_REQUEST

ASSUME ConversationsAssumption ==
  /\ MaxMetadata \in Nat
  /\ \A w \in CWorkloads : \A h \in DOMAIN w :
       /\ w[h].op = "create" => IsFiniteSet(w[h].keys)
       /\ w[h].op = "update" => IsFiniteSet(w[h].set)

VARIABLES call,       \* each handler: what it was asked, where it is, its answer
          meta,     \* metadata keys of the conversation
          catalog,  \* ids of the items that exist
          links     \* ids of the items linked to the conversation

cvars == <<call, meta, catalog, links>>
allvars == <<call, meta, catalog, links, o, q, requested, connected, responses, conversation>>

CInit ==
  /\ meta = {} /\ catalog = {} /\ links = {}
  /\ \/ OInit /\ call = <<>>
     \/ /\ \E w \in CWorkloads : call = [h \in DOMAIN w |-> [ask |-> w[h], at |-> "new", todo |-> <<>>, new |-> {}]]
        /\ o = <<>> /\ q = <<>> /\ requested = {} /\ connected = {} /\ responses = <<>>
        /\ conversation = [exists |-> FALSE, items |-> <<>>]

COthers == <<o, q, requested, connected, responses>>
Handlers == DOMAIN call
Op(h) == call[h].ask.op
CStep(h, x) == call' = [call EXCEPT ![h] = x]
Answer(h, status) == CStep(h, [call[h] EXCEPT !.at = status])

\* validate_metadata and one call of the store.
CreateConversation(h) ==
  /\ call[h].at = "new" /\ Op(h) = "create"
  /\ IF Cardinality(call[h].ask.keys) > MaxMetadata
       THEN Answer(h, "400") /\ UNCHANGED <<meta, conversation>>
       ELSE \/ /\ Answer(h, "200") /\ meta' = call[h].ask.keys
               /\ conversation' = [conversation EXCEPT !.exists = TRUE]
            \/ Answer(h, "500") /\ UNCHANGED <<meta, conversation>>
  /\ UNCHANGED <<catalog, links, COthers>>

Patched(h) == (meta \cup call[h].ask.set) \ call[h].ask.null

TooLarge(h) == Cardinality(Patched(h)) > MaxMetadata

\* ensure_conversation_exists; what is written later is computed from what is read here.
EnsureConversationExists(h) ==
  /\ call[h].at = "new" /\ Op(h) # "create"
  /\ \/ Answer(h, IF conversation.exists THEN "500" ELSE "404")
     \/ conversation.exists /\ Op(h) = "update" /\
          IF TooLarge(h) THEN Answer(h, "400") ELSE CStep(h, [call[h] EXCEPT !.at = "write", !.new = Patched(h)])
     \/ conversation.exists /\ Op(h) = "items" /\
          IF Len(call[h].ask.items) > MaxItems THEN Answer(h, "400")
          ELSE CStep(h, [call[h] EXCEPT !.at = "item", !.todo = call[h].ask.items])
     \/ conversation.exists /\ Op(h) \in {"delete", "unlink", "get", "list"} /\ CStep(h, [call[h] EXCEPT !.at = "write"])
  /\ UNCHANGED <<meta, catalog, links, conversation, COthers>>

\* The conversation may be gone by now, and its metadata changed.
UpdateConversation(h) ==
  /\ call[h].at = "write" /\ Op(h) = "update"
  /\ \/ conversation.exists /\ Answer(h, "200") /\ meta' = call[h].new
     \/ Answer(h, IF conversation.exists THEN "500" ELSE "404") /\ UNCHANGED meta
  /\ UNCHANGED <<catalog, links, conversation, COthers>>

CDeleteConversation(h) ==
  /\ call[h].at = "write" /\ Op(h) = "delete"
  /\ \/ Answer(h, "200") /\ conversation' = [conversation EXCEPT !.exists = FALSE] /\ meta' = {}
     \/ Answer(h, "500") /\ UNCHANGED <<conversation, meta>>
  /\ UNCHANGED <<catalog, links, COthers>>

DeleteConversationItem(h) ==
  /\ call[h].at = "write" /\ Op(h) = "unlink"
  /\ \/ Answer(h, "200") /\ links' = links \ {call[h].ask.id}
     \/ Answer(h, "500") /\ UNCHANGED links
  /\ UNCHANGED <<meta, catalog, conversation, COthers>>

ListConversationItems(h) ==
  /\ call[h].at = "write" /\ Op(h) = "list"
  /\ \E s \in {"200", "500"} : Answer(h, s)
  /\ UNCHANGED <<meta, catalog, links, conversation, COthers>>

\* Linked first, then read: two calls.
GetConversationItem(h) ==
  /\ Op(h) = "get"
  /\ \/ call[h].at = "write" /\ call[h].ask.id \in links /\ CStep(h, [call[h] EXCEPT !.at = "read"])
     \/ call[h].at = "write" /\ call[h].ask.id \notin links /\ Answer(h, "404")
     \/ call[h].at = "read" /\ Answer(h, IF call[h].ask.id \in catalog THEN "200" ELSE "404")
     \/ call[h].at \in {"write", "read"} /\ Answer(h, "500")
  /\ UNCHANGED <<meta, catalog, links, conversation, COthers>>

Item(h) == Head(call[h].todo)

\* A reference must exist; a given id must not be linked yet; other items are new.
ProcessItem(h) ==
  /\ call[h].at = "item" /\ call[h].todo # <<>>
  /\ \/ Item(h).kind = "reference" /\ IF Item(h).id \in catalog THEN CStep(h, [call[h] EXCEPT !.at = "link"]) ELSE Answer(h, "404")
     \/ Item(h).kind = "given" /\ IF Item(h).id \in links THEN Answer(h, "400") ELSE CStep(h, [call[h] EXCEPT !.at = "exists"])
     \/ Item(h).kind = "new" /\ IF Item(h).valid THEN CStep(h, [call[h] EXCEPT !.at = "create"]) ELSE Answer(h, "400")
     \/ Item(h).kind # "new" /\ Answer(h, "500")
  /\ UNCHANGED <<meta, catalog, links, conversation, COthers>>

ProcessItemWithId(h) ==
  /\ call[h].at = "exists"
  /\ \/ Item(h).id \in catalog /\ CStep(h, [call[h] EXCEPT !.at = "link"])
     \/ Item(h).id \notin catalog /\ IF Item(h).valid THEN CStep(h, [call[h] EXCEPT !.at = "create"]) ELSE Answer(h, "400")
     \/ Answer(h, "500")
  /\ UNCHANGED <<meta, catalog, links, conversation, COthers>>

CreateItem(h) ==
  /\ call[h].at = "create"
  /\ \/ CStep(h, [call[h] EXCEPT !.at = "link"]) /\ catalog' = catalog \cup {Item(h).id}
     \/ Answer(h, "500") /\ UNCHANGED catalog
  /\ UNCHANGED <<meta, links, conversation, COthers>>

\* A link that fails is only warned about.
ConvLinkItem(h) ==
  /\ call[h].at = "link"
  /\ CStep(h, [call[h] EXCEPT !.at = "item", !.todo = Tail(@)])
  /\ \E done \in {links \cup {Item(h).id}, links} : links' = done
  /\ UNCHANGED <<meta, catalog, conversation, COthers>>

ItemsCreated(h) ==
  /\ call[h].at = "item" /\ call[h].todo = <<>>
  /\ Answer(h, "200")
  /\ UNCHANGED <<meta, catalog, links, conversation, COthers>>

CAdvance(h) ==
  \/ CreateConversation(h) \/ EnsureConversationExists(h) \/ UpdateConversation(h) \/ CDeleteConversation(h)
  \/ DeleteConversationItem(h) \/ ListConversationItems(h) \/ GetConversationItem(h)
  \/ ProcessItem(h) \/ ProcessItemWithId(h) \/ CreateItem(h) \/ ConvLinkItem(h) \/ ItemsCreated(h)

Statuses == {"200", "400", "404", "500"}

CNext ==
  \/ \E h \in Handlers : CAdvance(h)
  \/ call = <<>> /\ ONext /\ UNCHANGED cvars
  \/ call # <<>> /\ (\A h \in Handlers : call[h].at \in Statuses) /\ UNCHANGED allvars

CSpec ==
  /\ CInit /\ [][CNext]_allvars
  /\ \A r \in UNION {DOMAIN w : w \in Workloads} :
       WF_allvars(r \in Reqs /\ Advance(r) /\ UNCHANGED <<o, cvars>>)
  /\ \A r \in UNION {DOMAIN w : w \in OWorkloads} : WF_allvars(r \in OReqs /\ OAdvance(r) /\ UNCHANGED cvars)
-----------------------------------------------------------------------------
\* Updates read, patch and write in separate calls; however they interleave with
\* one another and with a deletion, the stored metadata keeps to its bound, and
\* what is linked exists.
MetadataBounded == Cardinality(meta) <= MaxMetadata /\ links \subseteq catalog

\* What is stored is whole: responses, metadata and links.
StoresSound == StoredUnlessBroken /\ MetadataBounded
=============================================================================
