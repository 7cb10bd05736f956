-------------------------- MODULE LspSymbolsProofs --------------------------
(***************************************************************************)
(* Proofs about LspSymbols, for every set of documents and servers and     *)
(* every bound.  request_symbols() cancels its request at the server of    *)
(* the document shown now, not at the one it asked; what the pane owes is  *)
(* proved up to the first step that leaves a request standing that way     *)
(* (strayed), and the last theorem says when there is no such step.        *)
(***************************************************************************)
EXTENDS LspSymbols, TLAPS

USE DEF editor, servers

-----------------------------------------------------------------------------
(* Type correctness *)

\* The part of TypeOK that the requests change, and the other part.
RequestsOK ==
    /\ known \in [Doc -> Nat] /\ next_id \in [Server -> Nat]
    /\ calls \subseteq Call
    /\ symbols_request \in Nat
    /\ tree \in Shown

RestOK ==
    /\ acts \in 0 .. MaxActs /\ failures \in 0 .. MaxFailures
    /\ open \subseteq Doc /\ active \in open
    /\ text \in [Doc -> Nat]
    /\ ready \in [Server -> BOOLEAN]
    /\ window \in BOOLEAN /\ mapped \in BOOLEAN
    /\ symbols_timeout \in BOOLEAN
    /\ symbols_doc \in open \cup {None}
    /\ strayed \in BOOLEAN

LEMMA TypeParts == TypeOK <=> RequestsOK /\ RestOK
BY Zenon DEF TypeOK, RequestsOK, RestOK

LEMMA TypePartsNext == TypeOK' <=> RequestsOK' /\ RestOK'
BY Zenon DEF TypeOK, RequestsOK, RestOK

\* Asking keeps the types.
LEMMA RequestType ==
    ASSUME RequestsOK, RestOK, request_symbols
    PROVE  RequestsOK' /\ symbols_doc' \in open \cup {None} /\ strayed' \in BOOLEAN
<1>1. active \in Doc /\ known \in [Doc -> Nat] /\ text \in [Doc -> Nat]
  BY DEF RequestsOK, RestOK
<1>0. strayed' \in BOOLEAN
  BY Zenon DEF request_symbols
<1>2. CASE Ask
  <2>1. ServerOfActive \in Server
    BY <1>1, <1>2, SymbolsAssumption DEF Ask, CanAsk, ServerOfActive
  <2>2. known' \in [Doc -> Nat] /\ known'[active] \in Nat
    BY <1>1, <1>2 DEF Ask, Flushed
  <2>3. next_id[ServerOfActive] \in Nat /\ next_id \in [Server -> Nat]
    BY <2>1 DEF RequestsOK
  <2>4. next_id' \in [Server -> Nat] /\ symbols_request' \in Nat
    BY <2>1, <2>3, <1>2 DEF Ask
  <2> DEFINE new == [server |-> ServerOfActive, id |-> next_id[ServerOfActive],
                     by |-> "symbols", doc |-> active, text |-> known'[active]]
  <2>5. new \in Call
    BY <2>1, <2>2, <2>3, <1>1 DEF Call
  <2>6. calls' = Cancelled(ServerOfActive, symbols_request) \cup {new}
    BY <1>2 DEF Ask
  <2>7. calls' \subseteq Call
    BY <2>5, <2>6 DEF RequestsOK, Cancelled
  <2> QED
    BY <1>0, <2>2, <2>4, <2>7, <1>2 DEF Ask, RequestsOK, RestOK
<1>3. CASE Clear
  <2>1. Empty \in Shown
    BY DEF Empty, Shown
  <2> QED
    BY <1>0, <1>3, <2>1 DEF Clear, Cancelled, RequestsOK
<1> QED
  BY <1>2, <1>3 DEF request_symbols

LEMMA TypeStep ==
    ASSUME TypeOK, [Next]_vars
    PROVE  TypeOK'
<1> SUFFICES RequestsOK' /\ RestOK'
  BY TypePartsNext
<1>0. RequestsOK /\ RestOK
  BY TypeParts
<1>a. ASSUME UserActs PROVE acts' \in 0 .. MaxActs
  BY <1>0, <1>a, SymbolsAssumption DEF RestOK, UserActs
<1>b. Queued \in BOOLEAN
  BY <1>0, Zenon DEF RestOK, Queued
<1>c. ASSUME failures < MaxFailures, failures' = failures + 1
      PROVE  failures' \in 0 .. MaxFailures
  BY <1>0, <1>c, SymbolsAssumption DEF RestOK
<1>d. \A failed : Failed(failed) \in Nat
  BY <1>0 DEF Failed, RequestsOK
<1>1. CASE symbols_timer
  <2>1. request_symbols
    BY <1>1 DEF symbols_timer
  <2> QED
    BY <1>0, <1>1, <2>1, RequestType DEF symbols_timer, request_symbols, RestOK
<1>2. CASE map_pane
  <2>1. request_symbols
    BY <1>2 DEF map_pane
  <2>2. UserActs
    BY <1>2 DEF map_pane
  <2> QED
    BY <1>0, <1>a, <1>2, <2>1, <2>2, RequestType DEF map_pane, request_symbols, RestOK
<1>3. CASE unmap_pane
  BY <1>0, <1>a, <1>3 DEF unmap_pane, RequestsOK, RestOK
<1>4. CASE lsp_window_plugin_destroy
  BY <1>0, <1>a, <1>4 DEF lsp_window_plugin_destroy, RequestsOK, RestOK
<1>5. ASSUME NEW c \in calls, symbols_reply(c)
      PROVE  RequestsOK' /\ RestOK'
  <2>1. [doc |-> c.doc, text |-> c.text] \in Shown
    BY <1>0 DEF RequestsOK, Call, Shown
  <2> QED
    BY <1>0, <1>5, <2>1 DEF symbols_reply, RequestsOK, RestOK
<1>6. ASSUME NEW c \in calls, other_reply(c)
      PROVE  RequestsOK' /\ RestOK'
  BY <1>0, <1>6 DEF other_reply, RequestsOK, RestOK
<1>7. ASSUME NEW c \in calls, symbols_refused(c)
      PROVE  RequestsOK' /\ RestOK'
  BY <1>0, <1>c, <1>d, <1>7 DEF symbols_refused, RequestsOK, RestOK
<1>8. ASSUME NEW d \in Doc, symbols_buffer_changed(d)
      PROVE  RequestsOK' /\ RestOK'
  BY <1>0, <1>a, <1>b, <1>8 DEF symbols_buffer_changed, RequestsOK, RestOK
<1>9. ASSUME NEW d \in Doc, active_doc_changed(d)
      PROVE  RequestsOK' /\ RestOK'
  BY <1>0, <1>a, <1>b, <1>9 DEF active_doc_changed, RequestsOK, RestOK
<1>10. ASSUME NEW d \in Doc, close_doc(d)
       PROVE  RequestsOK' /\ RestOK'
  BY <1>0, <1>a, <1>b, <1>10 DEF close_doc, Weakened, RequestsOK, RestOK
<1>11. ASSUME NEW d \in Doc, send_change(d)
       PROVE  RequestsOK' /\ RestOK'
  BY <1>0, <1>11 DEF send_change, Flushed, RequestsOK, RestOK
<1>12. ASSUME NEW s \in Server, other_call(s)
       PROVE  RequestsOK' /\ RestOK'
  <2>1. [server |-> s, id |-> next_id[s], by |-> "other", doc |-> None,
         text |-> 0] \in Call
    BY <1>0 DEF Call, RequestsOK
  <2> QED
    BY <1>0, <1>a, <1>12, <2>1 DEF other_call, RequestsOK, RestOK
<1>13. ASSUME NEW s \in Server, lose_server(s)
       PROVE  RequestsOK' /\ RestOK'
  BY <1>0, <1>c, <1>d, <1>13 DEF lose_server, RequestsOK, RestOK
<1>14. ASSUME NEW s \in Server, server_ready(s)
       PROVE  RequestsOK' /\ RestOK'
  BY <1>0, <1>14 DEF server_ready, RequestsOK, RestOK
<1>15. CASE UNCHANGED vars
  BY <1>0, <1>15 DEF vars, RequestsOK, RestOK
<1> QED
  BY <1>1, <1>2, <1>3, <1>4, <1>5, <1>6, <1>7, <1>8, <1>9, <1>10, <1>11,
     <1>12, <1>13, <1>14, <1>15, Zenon DEF Next, Answer

LEMMA SymbolsTypeInit == Init => TypeOK
<1> SUFFICES ASSUME Init PROVE RequestsOK /\ RestOK
  BY TypeParts
<1>1. Empty \in Shown
  BY DEF Empty, Shown
<1>2. RequestsOK
  BY <1>1 DEF Init, RequestsOK
<1>3. acts \in 0 .. MaxActs /\ failures \in 0 .. MaxFailures
  BY SymbolsAssumption DEF Init
<1>4. text \in [Doc -> Nat]
  BY DEF Init
<1>5. RestOK
  BY <1>3, <1>4, Zenon DEF Init, RestOK
<1> QED
  BY <1>2, <1>5

\* Every variable of the pane, the window and the servers keeps its type
\* (lsp-plugin.cpp:817-1006).
THEOREM SymbolsTypeCorrect == Spec => []TypeOK
BY SymbolsTypeInit, TypeStep, PTL DEF Spec

-----------------------------------------------------------------------------
(* A server's table tells the pane's call from the others: ids are not     *)
(* given out twice while a client lives, and the table of a client that is *)
(* gone is empty.                                                          *)

IdsAreFresh ==
    \A c \in calls :
        /\ ready[c.server]
        /\ 2 <= c.id /\ c.id < next_id[c.server]
        /\ \A e \in calls : c.server = e.server /\ c.id = e.id => c = e

IdsAreOrdered == \A s \in Server : 2 <= next_id[s]

\* A closed window has neither a timer nor a pane.
ClosedIsClosed == symbols_timeout \/ mapped => window

AskedAtItsServer == \A c \in Asked : c.doc \in Doc /\ c.server = ServerOf[c.doc]

SymbolsInvariant ==
    /\ TypeOK
    /\ IdsAreOrdered
    /\ IdsAreFresh
    /\ ClosedIsClosed
    /\ AskedAtItsServer
    /\ OneRequest

\* What asking cancels is the pane's one request, unless it strays.
LEMMA CancelsItsOwn ==
    ASSUME SymbolsInvariant, window, request_symbols, ~ strayed'
    PROVE  /\ \A c \in Cancelled(ServerOfActive, symbols_request) : c \in calls \ Asked
           /\ calls \ Asked \subseteq Cancelled(ServerOfActive, symbols_request)
<1> DEFINE s == ServerOfActive
<1>1. ~ strayed /\ ~ Straying
  BY Zenon DEF request_symbols
<1>2. \A c \in Asked : c.id = symbols_request
  BY <1>1 DEF SymbolsInvariant, OneRequest
<1>3. \A c \in Asked : c.server = s
  BY <1>1, <1>2 DEF Straying
<1>4. \A c \in Cancelled(s, symbols_request) : c \in calls \ Asked
  BY <1>2, <1>3 DEF Cancelled
<1>5. \A c \in calls \ Asked : c \in Cancelled(s, symbols_request)
  <2> SUFFICES ASSUME NEW c \in calls, c \notin Asked,
                      c.server = s, c.id = symbols_request
               PROVE  FALSE
    BY DEF Cancelled
  <2>1. calls \subseteq Call
    BY DEF SymbolsInvariant, TypeOK
  <2>2. symbols_request # 0
    BY <2>1 DEF SymbolsInvariant, IdsAreFresh
  <2>3. PICK e \in Asked : TRUE
    BY <1>1, <2>2 DEF SymbolsInvariant, OneRequest
  <2>4. e \in calls /\ e.server = s /\ e.id = symbols_request
    BY <1>2, <1>3, <2>3 DEF Asked
  <2> QED
    BY <2>3, <2>4 DEF SymbolsInvariant, IdsAreFresh
<1> QED
  BY <1>4, <1>5

\* Asking replaces the one request and leaves the calls of others alone.
LEMMA AskStep ==
    ASSUME SymbolsInvariant, window, request_symbols
    PROVE  /\ IdsAreOrdered' /\ IdsAreFresh' /\ AskedAtItsServer' /\ OneRequest'
           /\ ~ strayed' => calls \ Asked \subseteq calls'
<1>1. active \in Doc /\ next_id \in [Server -> Nat] /\ calls \subseteq Call
  BY DEF SymbolsInvariant, TypeOK
<1> DEFINE s == ServerOfActive
<1>2. Cancelled(s, symbols_request) \subseteq calls
  BY DEF Cancelled
<1>3. ~ strayed' => \A c \in Cancelled(s, symbols_request) : c \notin Asked
  BY CancelsItsOwn
<1>4. ~ strayed' => calls \ Asked \subseteq Cancelled(s, symbols_request)
  BY CancelsItsOwn
<1>5. strayed' \in BOOLEAN
  BY Zenon DEF request_symbols
<1>6. window' = window /\ ready' = ready
  BY DEF request_symbols
<1>7. CASE Ask
  <2> DEFINE new == [server |-> s, id |-> next_id[s], by |-> "symbols",
                     doc |-> active, text |-> known'[active]]
  <2>0. s \in Server
    BY <1>1, <1>7, SymbolsAssumption DEF Ask, CanAsk, ServerOfActive
  <2>1. calls' = Cancelled(s, symbols_request) \cup {new}
    BY <1>7 DEF Ask
  <2>2. /\ symbols_request' = next_id[s]
        /\ next_id' = [next_id EXCEPT ![s] = next_id[s] + 1]
        /\ symbols_doc' = active
        /\ ready[s]
    BY <1>7 DEF Ask, CanAsk
  <2>3. ~ strayed' => Asked' = {new}
    BY <1>2, <1>3, <2>1 DEF Asked
  <2>4. next_id[s] \in Nat /\ 2 <= next_id[s] /\ next_id'[s] = next_id[s] + 1
    BY <1>1, <2>0, <2>2 DEF SymbolsInvariant, IdsAreOrdered
  <2>5. IdsAreOrdered'
    BY <1>1, <2>0, <2>2, <2>4 DEF IdsAreOrdered, SymbolsInvariant
  <2>6. \A c \in calls : /\ c.server \in Server /\ c.id \in Nat
                         /\ next_id[c.server] <= next_id'[c.server]
                         /\ ready[c.server] /\ 2 <= c.id
                         /\ c.id < next_id[c.server]
    BY <1>1, <2>0, <2>2 DEF SymbolsInvariant, IdsAreFresh, Call
  <2>7. \A c \in calls : c.server = s => c.id < new.id
    BY <2>6
  <2>8. new.server = s /\ new.id = next_id[s]
    OBVIOUS
  <2>9. \A c \in calls' : \/ c \in calls
                          \/ c = new
    BY <1>2, <2>1
  <2>10. \A c \in calls' : ready'[c.server] /\ 2 <= c.id /\ c.id < next_id'[c.server]
    <3> SUFFICES ASSUME NEW c \in calls'
                 PROVE  ready'[c.server] /\ 2 <= c.id /\ c.id < next_id'[c.server]
      OBVIOUS
    <3>1. CASE c \in calls
      BY <3>1, <2>6, <1>1, <2>0, <1>6, <2>2
    <3>2. CASE c = new
      BY <3>2, <2>2, <2>4, <2>8, <1>6
    <3> QED
      BY <3>1, <3>2, <2>9
  <2>11. \A c, e \in calls' : c.server = e.server /\ c.id = e.id => c = e
    <3> SUFFICES ASSUME NEW c \in calls', NEW e \in calls',
                        c.server = e.server, c.id = e.id
                 PROVE  c = e
      OBVIOUS
    <3>1. CASE c \in calls /\ e \in calls
      BY <3>1 DEF SymbolsInvariant, IdsAreFresh
    <3>2. CASE c \in calls /\ e = new
      BY <3>2, <2>4, <2>6, <2>7, <2>8
    <3>3. CASE c = new /\ e \in calls
      BY <3>3, <2>4, <2>6, <2>7, <2>8
    <3> QED
      BY <3>1, <3>2, <3>3, <2>9
  <2>12. IdsAreFresh'
    BY <2>10, <2>11 DEF IdsAreFresh
  <2>13. AskedAtItsServer'
    <3>1. \A c \in Asked' : c \in Asked \/ c = new
      BY <2>9 DEF Asked
    <3>2. new.doc \in Doc /\ new.server = ServerOf[new.doc]
      BY <1>1 DEF ServerOfActive
    <3> QED
      BY <3>1, <3>2 DEF SymbolsInvariant, AskedAtItsServer
  <2>14. OneRequest'
    <3>1. new.id = symbols_request' /\ new.doc = symbols_doc'
      BY <2>2
    <3>2. CASE ~ strayed'
      <4> HIDE DEF new
      <4>1. Asked' = {new}
        BY <2>3, <3>2
      <4> QED
        BY <3>1, <4>1 DEF OneRequest
    <3>3. CASE strayed'
      BY <3>3 DEF OneRequest
    <3> QED
      BY <3>2, <3>3
  <2>15. ~ strayed' => calls \ Asked \subseteq calls'
    BY <1>4, <2>1
  <2> QED
    BY <2>5, <2>12, <2>13, <2>14, <2>15
<1>8. CASE Clear
  <2>1. calls' = Cancelled(s, symbols_request) /\ symbols_request' = 0
        /\ next_id' = next_id
    BY <1>8 DEF Clear
  <2>2. calls' \subseteq calls /\ Asked' \subseteq Asked
    BY <1>2, <2>1 DEF Asked
  <2>3. ~ strayed' => Asked' = {}
    BY <1>2, <1>3, <2>1 DEF Asked
  <2>4. IdsAreFresh'
    BY <1>6, <2>1, <2>2 DEF SymbolsInvariant, IdsAreFresh
  <2>5. IdsAreOrdered' /\ AskedAtItsServer'
    BY <2>1, <2>2 DEF SymbolsInvariant, IdsAreOrdered, AskedAtItsServer
  <2>6. OneRequest'
    BY <1>5, <2>1, <2>3 DEF OneRequest
  <2>7. ~ strayed' => calls \ Asked \subseteq calls'
    BY <1>4, <2>1
  <2> QED
    BY <2>4, <2>5, <2>6, <2>7
<1> QED
  BY <1>7, <1>8 DEF request_symbols

\* Calls that fail or are answered leave the table.
LEMMA FewerCalls ==
    ASSUME SymbolsInvariant, calls' \subseteq calls,
           ready' = ready, next_id' = next_id
    PROVE  IdsAreOrdered' /\ IdsAreFresh' /\ AskedAtItsServer' /\ Asked' \subseteq Asked
BY DEF SymbolsInvariant, IdsAreOrdered, IdsAreFresh, AskedAtItsServer, Asked

\* Nothing of the requests changes.
LEMMA SameCalls ==
    ASSUME SymbolsInvariant,
           UNCHANGED <<calls, ready, next_id, symbols_request, strayed>>,
           window' => window,
           \/ symbols_doc' = symbols_doc
           \/ symbols_doc' = None
    PROVE  IdsAreOrdered' /\ IdsAreFresh' /\ AskedAtItsServer' /\ OneRequest'
<1>1. Asked' = Asked
  BY DEF Asked
<1>2. IdsAreOrdered' /\ IdsAreFresh' /\ AskedAtItsServer'
  BY FewerCalls
<1>3. OneRequest'
  BY <1>1 DEF SymbolsInvariant, OneRequest
<1> QED
  BY <1>2, <1>3

LEMMA SymbolsStep ==
    ASSUME SymbolsInvariant, [Next]_vars
    PROVE  SymbolsInvariant'
<1> DEFINE Goal == /\ IdsAreOrdered' /\ IdsAreFresh' /\ AskedAtItsServer'
                   /\ OneRequest' /\ ClosedIsClosed'
<1>0. TypeOK /\ TypeOK'
  BY TypeStep DEF SymbolsInvariant
<1> SUFFICES Goal
  BY <1>0 DEF SymbolsInvariant
<1>a. ClosedIsClosed /\ OneRequest
  BY DEF SymbolsInvariant
<1>b. Queued => window
  BY <1>a, Zenon DEF Queued, ClosedIsClosed
<1>1. CASE symbols_timer
  <2>1. window /\ request_symbols
    BY <1>1, <1>a DEF symbols_timer, ClosedIsClosed
  <2>2. ClosedIsClosed'
    <3>1. window' = window
      BY <2>1 DEF request_symbols
    <3> QED
      BY <2>1, <3>1, Zenon DEF ClosedIsClosed
  <2> QED
    BY <2>1, <2>2, AskStep
<1>2. CASE map_pane
  <2>1. window /\ request_symbols
    BY <1>2 DEF map_pane
  <2>2. ClosedIsClosed'
    BY <2>1, Zenon DEF request_symbols, ClosedIsClosed
  <2> QED
    BY <2>1, <2>2, AskStep
<1>3. CASE unmap_pane
  <2>1. ClosedIsClosed'
    BY <1>3, <1>a, Zenon DEF unmap_pane, ClosedIsClosed
  <2> QED
    BY <1>3, <2>1, SameCalls DEF unmap_pane
<1>4. CASE lsp_window_plugin_destroy
  <2>1. ClosedIsClosed'
    BY <1>4, Zenon DEF lsp_window_plugin_destroy, ClosedIsClosed
  <2> QED
    BY <1>4, <2>1, SameCalls DEF lsp_window_plugin_destroy
<1>5. ASSUME NEW c \in calls, symbols_reply(c)
      PROVE  Goal
  <2>1. calls' = calls \ {c} /\ c \in Asked
    BY <1>5 DEF symbols_reply
  <2>2. IdsAreOrdered' /\ IdsAreFresh' /\ AskedAtItsServer'
    BY <1>5, <2>1, FewerCalls DEF symbols_reply
  <2>3. ASSUME window, ~ strayed PROVE Asked' = {} /\ symbols_request' = 0
    <3>1. \A e \in Asked : e = c
      BY <2>1, <2>3 DEF SymbolsInvariant, OneRequest
    <3> QED
      BY <1>5, <2>1, <2>3, <3>1 DEF symbols_reply, Asked
  <2>4. OneRequest'
    BY <1>5, <2>3 DEF symbols_reply, OneRequest
  <2>5. ClosedIsClosed'
    BY <1>5, <1>a, Zenon DEF symbols_reply, ClosedIsClosed
  <2> QED
    BY <2>2, <2>4, <2>5
<1>6. ASSUME NEW c \in calls, other_reply(c)
      PROVE  Goal
  <2>1. calls' = calls \ {c} /\ c \notin Asked
    BY <1>6 DEF other_reply
  <2>2. IdsAreOrdered' /\ IdsAreFresh' /\ AskedAtItsServer' /\ Asked' = Asked
    BY <1>6, <2>1, FewerCalls DEF other_reply, Asked
  <2>3. OneRequest'
    BY <1>6, <1>a, <2>2 DEF other_reply, OneRequest
  <2>4. ClosedIsClosed'
    BY <1>6, <1>a, Zenon DEF other_reply, ClosedIsClosed
  <2> QED
    BY <2>2, <2>3, <2>4
<1>7. ASSUME NEW c \in calls, symbols_refused(c)
      PROVE  Goal
  <2>1. calls' = calls \ {c} /\ c \in Asked
    BY <1>7 DEF symbols_refused
  <2>2. IdsAreOrdered' /\ IdsAreFresh' /\ AskedAtItsServer'
    BY <1>7, <2>1, FewerCalls DEF symbols_refused
  <2>3. ASSUME window, ~ strayed PROVE Asked' = {} /\ symbols_request' = 0
    <3>1. \A e \in Asked : e = c
      BY <2>1, <2>3 DEF SymbolsInvariant, OneRequest
    <3>2. symbols_request' = 0
      BY <1>7, <2>1, <2>3 DEF symbols_refused, Failed, Asked
    <3> QED
      BY <2>1, <3>1, <3>2 DEF Asked
  <2>4. OneRequest'
    BY <1>7, <2>3 DEF symbols_refused, OneRequest
  <2>5. ClosedIsClosed'
    BY <1>7, <1>a, Zenon DEF symbols_refused, ClosedIsClosed
  <2> QED
    BY <2>2, <2>4, <2>5
<1>8. ASSUME NEW d \in Doc, symbols_buffer_changed(d)
      PROVE  Goal
  <2>1. symbols_timeout' = Queued \/ symbols_timeout' = symbols_timeout
    BY <1>8 DEF symbols_buffer_changed
  <2>2. ClosedIsClosed'
    BY <1>8, <1>a, <1>b, <2>1, Zenon DEF symbols_buffer_changed, ClosedIsClosed
  <2> QED
    BY <1>8, <2>2, SameCalls DEF symbols_buffer_changed
<1>9. ASSUME NEW d \in Doc, active_doc_changed(d)
      PROVE  Goal
  <2>1. ClosedIsClosed'
    BY <1>9, <1>a, <1>b, Zenon DEF active_doc_changed, ClosedIsClosed
  <2> QED
    BY <1>9, <2>1, SameCalls DEF active_doc_changed
<1>10. ASSUME NEW d \in Doc, close_doc(d)
       PROVE  Goal
  <2>1. symbols_timeout' = Queued \/ symbols_timeout' = symbols_timeout
    BY <1>10 DEF close_doc
  <2>2. ClosedIsClosed'
    BY <1>10, <1>a, <1>b, <2>1, Zenon DEF close_doc, ClosedIsClosed
  <2>3. symbols_doc' = symbols_doc \/ symbols_doc' = None
    BY <1>10 DEF close_doc, Weakened
  <2> QED
    BY <1>10, <2>2, <2>3, SameCalls DEF close_doc
<1>11. ASSUME NEW d \in Doc, send_change(d)
       PROVE  Goal
  <2>1. ClosedIsClosed'
    BY <1>11, <1>a, Zenon DEF send_change, ClosedIsClosed
  <2> QED
    BY <1>11, <2>1, SameCalls DEF send_change
<1>12. ASSUME NEW s \in Server, other_call(s)
       PROVE  Goal
  <2> DEFINE new == [server |-> s, id |-> next_id[s], by |-> "other",
                     doc |-> None, text |-> 0]
  <2>1. /\ calls' = calls \cup {new}
        /\ next_id' = [next_id EXCEPT ![s] = next_id[s] + 1]
        /\ ready[s] /\ ready' = ready
    BY <1>12 DEF other_call
  <2>2. next_id \in [Server -> Nat] /\ \A c \in calls : c.server \in Server /\ c.id \in Nat
    BY <1>0 DEF TypeOK, Call
  <2>3. 2 <= next_id[s] /\ next_id'[s] = next_id[s] + 1
    BY <2>1, <2>2 DEF SymbolsInvariant, IdsAreOrdered
  <2>4. IdsAreOrdered'
    BY <2>1, <2>2, <2>3 DEF IdsAreOrdered, SymbolsInvariant
  <2>5. Asked' = Asked
    BY <2>1 DEF Asked
  <2>6. IdsAreFresh'
    <3>1. \A c \in calls : /\ ready'[c.server] /\ 2 <= c.id /\ c.id < next_id'[c.server]
                           /\ c.server = s => c.id < new.id
      BY <2>1, <2>2 DEF SymbolsInvariant, IdsAreFresh
    <3>2. ready'[new.server] /\ 2 <= new.id /\ new.id < next_id'[new.server]
      BY <2>1, <2>2, <2>3
    <3>3. \A c, e \in calls' : c.server = e.server /\ c.id = e.id => c = e
      BY <2>1, <2>2, <3>1 DEF SymbolsInvariant, IdsAreFresh
    <3> QED
      BY <2>1, <3>1, <3>2, <3>3 DEF IdsAreFresh
  <2>7. AskedAtItsServer' /\ OneRequest'
    BY <1>12, <2>5 DEF other_call, SymbolsInvariant, AskedAtItsServer, OneRequest
  <2>8. ClosedIsClosed'
    BY <1>12, <1>a, Zenon DEF other_call, ClosedIsClosed
  <2> QED
    BY <2>4, <2>6, <2>7, <2>8
<1>13. ASSUME NEW s \in Server, lose_server(s)
       PROVE  Goal
  <2> DEFINE failed == {c \in calls : c.server = s}
  <2>1. /\ calls' = calls \ failed
        /\ symbols_request' = Failed(failed)
        /\ ready' = [ready EXCEPT ![s] = FALSE]
        /\ next_id' = next_id /\ window' = window /\ symbols_doc' = symbols_doc
        /\ strayed' = strayed
    BY <1>13 DEF lose_server
  <2>2. \A c \in calls' : c \in calls /\ c.server # s /\ c.server \in Server
    BY <1>0, <2>1 DEF TypeOK, Call
  <2>3. IdsAreOrdered' /\ AskedAtItsServer'
    BY <2>1, <2>2 DEF SymbolsInvariant, IdsAreOrdered, AskedAtItsServer, Asked
  <2>4. IdsAreFresh'
    BY <1>0, <2>1, <2>2 DEF SymbolsInvariant, IdsAreFresh, TypeOK
  <2>5. OneRequest'
    <3> SUFFICES ASSUME window, ~ strayed PROVE OneRequest'
      BY <2>1 DEF OneRequest
    <3>1. CASE \E c \in failed : c.by = "symbols"
      <4>1. symbols_request' = 0
        BY <2>1, <3>1 DEF Failed
      <4>2. \A c \in Asked : c.server = s
        BY <3>1 DEF SymbolsInvariant, OneRequest, Asked
      <4>3. Asked' = {}
        BY <2>1, <4>2 DEF Asked
      <4> QED
        BY <4>1, <4>3 DEF OneRequest
    <3>2. CASE ~ \E c \in failed : c.by = "symbols"
      <4>1. symbols_request' = symbols_request
        BY <2>1, <3>2 DEF Failed
      <4>2. Asked' = Asked
        BY <2>1, <3>2 DEF Asked
      <4> QED
        BY <1>a, <2>1, <4>1, <4>2 DEF OneRequest
    <3> QED
      BY <3>1, <3>2
  <2>6. ClosedIsClosed'
    BY <1>13, <1>a, Zenon DEF lose_server, ClosedIsClosed
  <2> QED
    BY <2>3, <2>4, <2>5, <2>6
<1>14. ASSUME NEW s \in Server, server_ready(s)
       PROVE  Goal
  <2>1. /\ calls' = calls /\ ~ ready[s]
        /\ ready' = [ready EXCEPT ![s] = TRUE]
        /\ next_id' = [next_id EXCEPT ![s] = 2]
        /\ UNCHANGED <<window, symbols_doc, symbols_request, strayed>>
    BY <1>14 DEF server_ready
  <2>2. \A c \in calls : c.server \in Server /\ c.server # s
    BY <1>0, <2>1 DEF SymbolsInvariant, IdsAreFresh, TypeOK, Call
  <2>3. IdsAreOrdered' /\ IdsAreFresh'
    BY <1>0, <2>1, <2>2 DEF SymbolsInvariant, IdsAreOrdered, IdsAreFresh, TypeOK
  <2>4. AskedAtItsServer' /\ OneRequest'
    BY <2>1 DEF SymbolsInvariant, AskedAtItsServer, OneRequest, Asked
  <2>5. ClosedIsClosed'
    BY <1>14, <1>a, Zenon DEF server_ready, ClosedIsClosed
  <2> QED
    BY <2>3, <2>4, <2>5
<1>15. CASE UNCHANGED vars
  <2>1. ClosedIsClosed'
    BY <1>15, <1>a, Zenon DEF vars, ClosedIsClosed
  <2> QED
    BY <1>15, <2>1, SameCalls DEF vars
<1> QED
  BY <1>1, <1>2, <1>3, <1>4, <1>5, <1>6, <1>7, <1>8, <1>9, <1>10, <1>11,
     <1>12, <1>13, <1>14, <1>15, Zenon DEF Next, Answer

LEMMA SymbolsIsInvariant == Spec => []SymbolsInvariant
<1>1. ASSUME Init PROVE SymbolsInvariant
  <2>1. TypeOK
    BY <1>1, SymbolsTypeInit
  <2>2. calls = {} /\ Asked = {} /\ symbols_request = 0 /\ IdsAreOrdered
    BY <1>1 DEF Init, Asked, IdsAreOrdered
  <2>3. ClosedIsClosed
    BY <1>1 DEF Init, ClosedIsClosed
  <2> QED
    BY <2>1, <2>2, <2>3
       DEF SymbolsInvariant, IdsAreFresh, AskedAtItsServer, OneRequest
<1>2. ASSUME SymbolsInvariant, [Next]_vars PROVE SymbolsInvariant'
  BY <1>2, SymbolsStep
<1> QED
  BY <1>1, <1>2, PTL DEF Spec

\* Until a request is cancelled at a server that was not asked it, the pane knows
\* its one outstanding request through every order of answers, edits, closed
\* documents and lost processes (lsp-plugin.cpp:843, 886-890).
THEOREM OneRequestAtATime == Spec => []OneRequest
<1>1. SymbolsInvariant => OneRequest
  BY DEF SymbolsInvariant
<1> QED
  BY <1>1, SymbolsIsInvariant, PTL

\* Until a request is cancelled at a server that was not asked it, an answer
\* never fills the tree of another document (lsp-plugin.cpp:848-852).
THEOREM TreeIsOfTheActive == Spec => FillsTheActive
<1>1. ASSUME SymbolsInvariant, [Next]_vars, tree' # tree, tree' # Empty, ~ strayed'
      PROVE  tree'.doc = active
  <2>1. tree' = Empty \/ tree' = tree \/ \E c \in calls : symbols_reply(c)
    BY <1>1 DEF Next, Answer, symbols_timer, map_pane, request_symbols, Ask, Clear,
       unmap_pane, lsp_window_plugin_destroy, other_reply, symbols_refused,
       symbols_buffer_changed, active_doc_changed, close_doc, send_change,
       other_call, lose_server, server_ready, vars
  <2>2. PICK c \in calls : symbols_reply(c)
    BY <1>1, <2>1
  <2>3. /\ window /\ Fills /\ tree' = [doc |-> c.doc, text |-> c.text] /\ c \in Asked
        /\ ~ strayed
    BY <1>1, <2>2 DEF symbols_reply
  <2>4. symbols_doc = c.doc /\ active = symbols_doc
    BY <1>1, <2>3 DEF SymbolsInvariant, OneRequest, Fills
  <2> QED
    BY <2>3, <2>4
<1> QED
  BY <1>1, SymbolsIsInvariant, PTL DEF Spec, FillsTheActive

\* A request that is cancelled where it was asked, and all before it were, takes
\* no request of another feature with it (lsp-plugin.cpp:886-890).
THEOREM OthersKeepTheirCalls == Spec => OthersAreAnswered
<1>1. ASSUME SymbolsInvariant, window, request_symbols, ~ strayed'
      PROVE  calls \ Asked \subseteq calls'
  BY <1>1, AskStep
<1> QED
  BY <1>1, SymbolsIsInvariant, PTL DEF Spec, OthersAreAnswered

-----------------------------------------------------------------------------
(* What the pane shows while it is open.  A stale tree has an update on its *)
(* way: the timer is due, or a call for the active document at its present *)
(* text is outstanding, and its answer will fill the tree.                 *)

Watching ==
    window /\ mapped /\ failures = 0 /\ symbols_timeout = FALSE /\ ~ strayed

CallIsCurrent(c) == c.doc = active /\ c.text = text[active] /\ symbols_doc = active

UpdateIsDue == Watching =>
    /\ \A c \in Asked : CallIsCurrent(c)
    /\ Asked # {} \/ Current \/ tree = Empty

\* What was asked is what is shown, or nothing can be asked and nothing is shown.
LEMMA AskIsDue ==
    ASSUME SymbolsInvariant, window, request_symbols
    PROVE  UpdateIsDue'
<1>1. active \in Doc /\ active' = active /\ text' = text /\ known \in [Doc -> Nat] /\ Empty' = Empty
  BY DEF SymbolsInvariant, TypeOK, request_symbols, Empty
<1>2. CASE strayed'
  BY <1>2 DEF UpdateIsDue, Watching
<1>3. CASE ~ strayed'
  <2>1. \A c \in Cancelled(ServerOfActive, symbols_request) : c \in calls /\ c \notin Asked
    BY <1>3, CancelsItsOwn
  <2>2. CASE Ask
    <3>1. PICK new : /\ new = [server |-> ServerOfActive, id |-> next_id[ServerOfActive],
                               by |-> "symbols", doc |-> active, text |-> known'[active]]
                     /\ calls' = Cancelled(ServerOfActive, symbols_request) \cup {new}
      BY <2>2 DEF Ask
    <3>2. known'[active] = text[active] /\ symbols_doc' = active
      BY <1>1, <2>2 DEF Ask, Flushed
    <3>3. Asked' = {new}
      BY <2>1, <3>1 DEF Asked
    <3>4. new.doc = active /\ new.text = text[active]
      BY <3>1, <3>2
    <3> QED
      BY <1>1, <3>2, <3>3, <3>4 DEF UpdateIsDue, CallIsCurrent
  <2>3. CASE Clear
    <3>1. calls' = Cancelled(ServerOfActive, symbols_request) /\ tree' = Empty
      BY <2>3 DEF Clear
    <3>2. Asked' = {}
      BY <2>1, <3>1 DEF Asked
    <3> QED
      BY <1>1, <3>1, <3>2 DEF UpdateIsDue
  <2> QED
    BY <2>2, <2>3 DEF request_symbols
<1> QED
  BY <1>2, <1>3

\* Steps that leave the pane's calls alone, and the document it shows at its text.
LEMMA NothingAsked ==
    ASSUME UpdateIsDue, Asked' = Asked, UNCHANGED <<active, tree>>,
           window' => window, mapped' => mapped, symbols_timeout' = symbols_timeout,
           failures' = failures, strayed' = strayed, text'[active] = text[active],
           window' => symbols_doc' = symbols_doc \/ symbols_doc # active
    PROVE  UpdateIsDue'
<1>1. Watching' => Watching
  BY DEF Watching
<1>2. Empty' = Empty /\ (Current' <=> Current)
  BY DEF Empty, Current
<1>3. ASSUME Watching', NEW c \in Asked' PROVE CallIsCurrent(c)'
  BY <1>1, <1>3 DEF UpdateIsDue, CallIsCurrent, Watching
<1>4. Watching' => Asked' # {} \/ Current' \/ tree' = Empty'
  BY <1>1, <1>2 DEF UpdateIsDue
<1> QED
  BY <1>3, <1>4 DEF UpdateIsDue

LEMMA UpdateStep ==
    ASSUME SymbolsInvariant, UpdateIsDue, [Next]_vars
    PROVE  UpdateIsDue'
<1>0. /\ failures \in Nat /\ symbols_timeout \in BOOLEAN /\ active \in Doc
      /\ symbols_timeout \/ mapped => window
      /\ text \in [Doc -> Nat] /\ window \in BOOLEAN /\ mapped \in BOOLEAN
  BY SymbolsAssumption DEF SymbolsInvariant, TypeOK, ClosedIsClosed
<1>1. CASE symbols_timer
  BY <1>0, <1>1, AskIsDue DEF symbols_timer
<1>2. CASE map_pane
  BY <1>2, AskIsDue DEF map_pane
<1>3. CASE unmap_pane
  <2>1. mapped' = FALSE
    BY <1>3 DEF unmap_pane
  <2> QED  BY <2>1 DEF UpdateIsDue, Watching
<1>4. CASE lsp_window_plugin_destroy
  <2>1. window' = FALSE
    BY <1>4 DEF lsp_window_plugin_destroy
  <2> QED  BY <2>1 DEF UpdateIsDue, Watching
<1>5. ASSUME NEW c \in calls, symbols_reply(c) PROVE UpdateIsDue'
  <2>1. /\ c \in Asked /\ calls' = calls \ {c} /\ symbols_doc' = symbols_doc
        /\ UNCHANGED <<active, text, window, mapped, failures, symbols_timeout, strayed>>
        /\ window => tree' = IF Fills THEN [doc |-> c.doc, text |-> c.text] ELSE tree
    BY <1>5 DEF symbols_reply
  <2>2. Asked' \subseteq Asked
    BY <2>1 DEF Asked
  <2>3. SUFFICES ASSUME Watching' PROVE (\A e \in Asked' : CallIsCurrent(e)') /\ Current'
    BY DEF UpdateIsDue
  <2>4. Watching
    BY <2>1, <2>3 DEF Watching
  <2>5. \A e \in Asked : CallIsCurrent(e)
    BY <2>4 DEF UpdateIsDue
  <2>6. \A e \in Asked' : CallIsCurrent(e)'
    BY <2>1, <2>2, <2>5 DEF CallIsCurrent
  <2>7. CallIsCurrent(c) /\ active # None
    BY <1>0, <2>1, <2>5, SymbolsAssumption
  <2>8. tree' = [doc |-> active, text |-> text[active]]
    BY <2>1, <2>4, <2>7 DEF CallIsCurrent, Fills, Watching
  <2> QED  BY <2>1, <2>6, <2>8 DEF Current
<1>6. ASSUME NEW c \in calls, symbols_refused(c) PROVE UpdateIsDue'
  <2>1. failures' # 0
    BY <1>0, <1>6 DEF symbols_refused
  <2> QED  BY <2>1 DEF UpdateIsDue, Watching
<1>7. ASSUME NEW d \in Doc, symbols_buffer_changed(d) PROVE UpdateIsDue'
  <2>1. CASE d = active
    <3>1. symbols_timeout' = Queued /\ window' = window /\ mapped' = mapped
      BY <1>7, <2>1 DEF symbols_buffer_changed
    <3>2. ~ Watching'
      BY <3>1, Zenon DEF Queued, Watching
    <3> QED  BY <3>2 DEF UpdateIsDue
  <2>2. CASE d # active
    <3>1. /\ UNCHANGED <<active, tree, window, mapped, failures, symbols_doc, calls,
                    strayed>>
          /\ text' = [text EXCEPT ![d] = @ + 1] /\ symbols_timeout' = symbols_timeout
          /\ strayed' = strayed
      BY <1>7, <2>2 DEF symbols_buffer_changed
    <3>2. Asked' = Asked /\ text'[active] = text[active]
      BY <1>0, <2>2, <3>1 DEF Asked
    <3> QED  BY <3>1, <3>2, NothingAsked
  <2> QED  BY <2>1, <2>2
<1>8. ASSUME NEW d \in Doc, active_doc_changed(d) PROVE UpdateIsDue'
  <2>1. symbols_timeout' = Queued /\ window' = window /\ mapped' = mapped
    BY <1>8 DEF active_doc_changed
  <2>2. ~ Watching'
    BY <2>1, Zenon DEF Queued, Watching
  <2> QED  BY <2>2 DEF UpdateIsDue
<1>9. ASSUME NEW d \in Doc, close_doc(d) PROVE UpdateIsDue'
  <2>1. CASE d = active
    <3>1. symbols_timeout' = Queued /\ window' = window /\ mapped' = mapped
      BY <1>9, <2>1 DEF close_doc
    <3>2. ~ Watching'
      BY <3>1, Zenon DEF Queued, Watching
    <3> QED  BY <3>2 DEF UpdateIsDue
  <2>2. CASE d # active
    <3>1. /\ UNCHANGED <<active, tree, window, mapped, failures, text, calls, symbols_timeout, strayed>>
          /\ symbols_doc' = Weakened(d)
      BY <1>9, <2>2 DEF close_doc
    <3>2. Asked' = Asked /\ (symbols_doc' = symbols_doc \/ symbols_doc # active)
      BY <2>2, <3>1 DEF Asked, Weakened
    <3> QED  BY <3>1, <3>2, NothingAsked
  <2> QED  BY <2>1, <2>2
<1>10. ASSUME NEW s \in Server, other_call(s) PROVE UpdateIsDue'
  <2>1. /\ UNCHANGED <<active, tree, window, mapped, failures, text, symbols_timeout,
                    symbols_doc, strayed>>
        /\ \E c : c.by = "other" /\ calls' = calls \cup {c}
    BY <1>10 DEF other_call
  <2>2. Asked' = Asked
    BY <2>1 DEF Asked
  <2> QED  BY <2>1, <2>2, NothingAsked
<1>11. ASSUME NEW c \in calls, other_reply(c) PROVE UpdateIsDue'
  <2>1. /\ UNCHANGED <<active, tree, window, mapped, failures, text, symbols_timeout,
                    symbols_doc, strayed>>
        /\ c \notin Asked /\ calls' = calls \ {c}
    BY <1>11 DEF other_reply
  <2>2. Asked' = Asked
    BY <2>1 DEF Asked
  <2> QED  BY <2>1, <2>2, NothingAsked
<1>12. ASSUME NEW d \in Doc, send_change(d) PROVE UpdateIsDue'
  <2>1. UNCHANGED <<active, tree, window, mapped, failures, text, symbols_timeout, symbols_doc, calls,
                    strayed>>
    BY <1>12 DEF send_change
  <2> QED  BY <2>1, NothingAsked DEF Asked
<1>13. ASSUME NEW s \in Server, lose_server(s) PROVE UpdateIsDue'
  <2>1. failures' # 0
    BY <1>0, <1>13 DEF lose_server
  <2> QED  BY <2>1 DEF UpdateIsDue, Watching
<1>14. ASSUME NEW s \in Server, server_ready(s) PROVE UpdateIsDue'
  <2>1. UNCHANGED <<active, tree, window, mapped, failures, text, symbols_timeout, symbols_doc, calls,
                    strayed>>
    BY <1>14 DEF server_ready
  <2> QED  BY <2>1, NothingAsked DEF Asked
<1>15. CASE UNCHANGED vars
  <2>1. UNCHANGED <<active, tree, window, mapped, failures, text, symbols_timeout, symbols_doc, calls,
                    strayed>>
    BY <1>15 DEF vars
  <2> QED  BY <2>1, NothingAsked DEF Asked
<1> QED
  BY <1>1, <1>2, <1>3, <1>4, <1>5, <1>6, <1>7, <1>8, <1>9, <1>10, <1>11,
     <1>12, <1>13, <1>14, <1>15, Zenon DEF Next, Answer

\* Until a request failed, or was cancelled at a server that was not asked it, the
\* pane never rests on an old tree: a change of the text or of the active document
\* while it is open queues an update, a change while it is closed is caught up
\* with when it is opened, and no answer that comes late is left in it
\* (lsp-plugin.cpp:901-903, 911-913).
THEOREM TreeKeepsUp == Spec => []QuietTreeIsCurrent
<1>1. ASSUME Init PROVE UpdateIsDue
  BY <1>1 DEF Init, UpdateIsDue, Watching
<1>2. ASSUME SymbolsInvariant, UpdateIsDue, [Next]_vars PROVE UpdateIsDue'
  BY <1>2, UpdateStep
<1>3. ASSUME SymbolsInvariant, UpdateIsDue PROVE QuietTreeIsCurrent
  BY <1>3 DEF UpdateIsDue, QuietTreeIsCurrent, Quiet, Watching, SymbolsInvariant, TypeOK
<1> QED
  BY <1>1, <1>2, <1>3, SymbolsIsInvariant, PTL DEF Spec

-----------------------------------------------------------------------------
(* When a request can stray *)

OneServer ==
    \A d, e \in Doc : ServerOf[d] = ServerOf[e] /\ ServerOf[d] \in Server

\* Only a window with documents of two servers, or with one that has none, lets a
\* request stray: the pane then keeps all it promises (lsp-plugin.cpp:886-890).
THEOREM OneServerIsEnough ==
    ASSUME OneServer
    PROVE  Spec => []~ strayed
<1>1. ASSUME SymbolsInvariant, ~ strayed, [Next]_vars PROVE ~ strayed'
  <2>1. ~ Straying
    BY <1>1 DEF SymbolsInvariant, AskedAtItsServer, OneServer, TypeOK, Straying,
                ServerOfActive
  <2>2. CASE request_symbols
    BY <1>1, <2>1, <2>2, Zenon DEF request_symbols
  <2>3. CASE ~ request_symbols
    BY <1>1, <2>3 DEF Next, Answer, symbols_timer, map_pane, unmap_pane,
       lsp_window_plugin_destroy, symbols_reply, other_reply, symbols_refused,
       symbols_buffer_changed, active_doc_changed, close_doc, send_change,
       other_call, lose_server, server_ready, vars
  <2> QED
    BY <2>2, <2>3
<1>2. Init => ~ strayed
  BY DEF Init
<1> QED
  BY <1>1, <1>2, SymbolsIsInvariant, PTL DEF Spec

=============================================================================
