----------------------------- MODULE HijackMonitor -----------------------------
(***************************************************************************)
(* hihack.js (fed_hijack): reports, and on request removes, elements of a  *)
(* page whose address is not on its list.  1.5 seconds after the page has  *)
(* loaded it scans the document (mElement), wraps setAttribute and         *)
(* observes insertions.                                                    *)
(*                                                                         *)
(* An address is a model value, absolute and in small letters; matching it *)
(* against the lists is the constant Class.  No element is inside another, *)
(* and no frame has a srcdoc.  External: the DOM.  document.links and the  *)
(* collections in `d` are live; an element that is inserted again moves;   *)
(* the records of a mutation observer are handed over after the task that  *)
(* changed the document, to each observer in turn.                         *)
(***************************************************************************)
EXTENDS Naturals, Sequences, SequencesExt

CONSTANTS Elems,         \* the elements the page makes
          TypeOf,        \* "link", "img", "script" or "iframe"
          Areas,         \* the links that are AREA elements: in document.links, not among
                         \* the elements with tag name a
          Urls, NoUrl,
          Class,         \* of an address: "listed", "local" or "foreign"
          Http,          \* the addresses that begin with http
          PlainHttp,     \* those that begin with http:
          HttpsPage,     \* document.location.protocol == "https:"
          removeError,   \* the option of init
          Batch,         \* links in one report: 8 in the code
          MaxRecords     \* bound: insertions in one task

Types == <<"link", "img", "script", "iframe">>

ASSUME HijackAssumption ==
    /\ TypeOf \in [Elems -> Range(Types)]
    /\ Areas \subseteq {e \in Elems : TypeOf[e] = "link"}
    /\ NoUrl \notin Urls
    /\ Class \in [Urls -> {"listed", "local", "foreign"}]
    /\ PlainHttp \subseteq Http /\ Http \subseteq Urls
    /\ HttpsPage \in BOOLEAN /\ removeError \in BOOLEAN
    /\ Batch \in Nat \ {0} /\ MaxRecords \in Nat

VARIABLES
    dom,         \* the elements of the document, in document order
    url,         \* href or src of each element
    timers,      \* setTimeouts of onLoad that are armed
    loaded,
    observers,   \* how often resetSetAttribute and bindObserver have run
    records,     \* insertions each observer has not been told of
    hijack,      \* batches handed to hijackStorage by the last task
    insecure     \* batches handed to httpStorage by the last task

hijackVars == <<dom, url, timers, loaded, observers, records, hijack, insecure>>

Entry == [type : Range(Types), link : Urls]

HijackTypeOK ==
    /\ dom \in Seq(Elems)
    /\ url \in [Elems -> Urls \cup {NoUrl}]
    /\ timers \in 0..2 /\ loaded \in BOOLEAN
    /\ observers \in 0..2
    /\ records \in [1..2 -> Seq(Elems)]
    /\ hijack \in Seq(Seq(Entry)) /\ insecure \in Seq(Seq(Entry))

HijackInit ==
    /\ dom = <<>>
    /\ url \in [Elems -> Urls \cup {NoUrl}]
    /\ timers = 0 /\ loaded = FALSE
    /\ observers = 0
    /\ records = [o \in 1..2 |-> <<>>]
    /\ hijack = <<>> /\ insecure = <<>>

-----------------------------------------------------------------------------
(* The scan. *)

EntryOf(e) == [type |-> TypeOf[e], link |-> url[e]]

\* The members of S in s, in their order: SelectSeq for a set in place of a test, in a form
\* the proofs can expand.
Only(s, S) ==
    LET keep(kept, x) == IF x \in S THEN Append(kept, x) ELSE kept
    IN  FoldLeft(keep, <<>>, s)

OfType(doc, t) == Only(doc, {e \in Elems : TypeOf[e] = t})

\* The elements of one type with an address that is neither empty nor local.
getMatchLink(t) ==
    LET matches == {e \in Elems : url[e] # NoUrl /\ Class[url[e]] # "local"}
        found == Only(OfType(dom, t), matches)
    IN  [i \in DOMAIN found |-> EntryOf(found[i])]

\* The loop over a live collection: what it removes moves the next element to the
\* place the loop has just passed.  The links among them are those with tag name a.
removeDom(doc, entry) ==
    LET pass(live, j) == IF j <= Len(live) /\ url[live[j]] = entry.link
                         THEN RemoveAt(live, j) ELSE live
        before == Only(OfType(doc, entry.type), Elems \ Areas)
        after == FoldLeft(pass, before, [j \in DOMAIN before |-> j])
    IN  Only(doc, {e \in Elems : TypeOf[e] # entry.type} \cup Areas \cup ToSet(after))

\* if (m.length > 0 && m.length % 8 === 0) { storage(m); m = [] }
Flush(pending, sent) ==
    IF Len(pending) > 0 /\ Len(pending) % Batch = 0
    THEN [pending |-> <<>>, sent |-> Append(sent, pending)]
    ELSE [pending |-> pending, sent |-> sent]

\* Fault: the links of the last, short batch are not sent.
RestDropped(f) == f.sent

\* What is left after the loop.
Rest(f) == IF f.pending = <<>> THEN f.sent ELSE Append(f.sent, f.pending)

InBatches(entries) ==
    LET add(f, x) == Flush(Append(f.pending, x), f.sent)
    IN  Rest(FoldLeft(add, [pending |-> <<>>, sent |-> <<>>], entries))

NoReport == hijack' = <<>> /\ insecure' = <<>>

mElement ==
    LET n == FlattenSeq([i \in DOMAIN Types |-> getMatchLink(Types[i])])
        foreign == Only(n, {w \in Entry : Class[w.link] = "foreign"})
        plain == Only(n, {w \in Entry : HttpsPage /\ w.link \in PlainHttp})
    IN  /\ dom' = IF removeError THEN FoldLeft(removeDom, dom, foreign) ELSE dom
        /\ hijack' = InBatches(foreign)
        /\ insecure' = InBatches(plain)

\* Both listeners that onLoad installs call i(): removeEventListener names i, which is
\* not what was added.
onLoad ==
    /\ ~loaded
    /\ loaded' = TRUE
    /\ timers' = 2
    /\ NoReport
    /\ UNCHANGED <<dom, url, observers, records>>

\* The task of init's setTimeout: scan, wrap, observe.
Scan ==
    /\ timers > 0
    /\ \A o \in 1..2 : records[o] = <<>>
    /\ timers' = timers - 1
    /\ mElement
    /\ observers' = observers + 1
    /\ UNCHANGED <<url, loaded, records>>

-----------------------------------------------------------------------------
(* The page, and what watches it. *)

\* appendChild: of an element that is in the document already, a move.
Insert(e) ==
    /\ \A o \in 1..2 : Len(records[o]) < MaxRecords
    /\ dom' = Append(Only(dom, Elems \ {e}), e)
    /\ records' = [o \in 1..2 |-> IF o <= observers THEN Append(records[o], e) ELSE records[o]]
    /\ NoReport
    /\ UNCHANGED <<url, timers, loaded, observers>>

PageRemoves(e) ==
    /\ e \in ToSet(dom)
    /\ dom' = Only(dom, Elems \ {e})
    /\ NoReport
    /\ UNCHANGED <<url, timers, loaded, observers, records>>

\* setAttribute("src" or "href", u) by the page.  The outermost wrapper decides: an
\* address with http that is not listed, a local one too, is reported (with the tag name
\* for its type) and not set.
SetAttribute(e, u) ==
    /\ e \in ToSet(dom) /\ url[e] = NoUrl
    /\ IF observers > 0 /\ u \in Http /\ Class[u] # "listed"
       THEN /\ hijack' = <<<<[type |-> TypeOf[e], link |-> u]>>>>
            /\ UNCHANGED url
       ELSE /\ url' = [url EXCEPT ![e] = u]
            /\ hijack' = <<>>
    /\ insecure' = <<>>
    /\ UNCHANGED <<dom, timers, loaded, observers, records>>

ForeignElems == {e \in Elems : url[e] # NoUrl /\ Class[url[e]] = "foreign"}

\* The observer looks at SCRIPT, IFRAME, IMG and A, and at addresses with http only.
Caught == {e \in ForeignElems \ Areas : url[e] \in Http}

\* Fault: an element is reported and stays.
ObserverReports(o) ==
    /\ records[o] # <<>>
    /\ \A p \in 1..(o - 1) : records[p] = <<>>
    /\ LET caught == Only(records[o], Caught) IN
       hijack' = InBatches([i \in DOMAIN caught |-> EntryOf(caught[i])])
    /\ records' = [records EXCEPT ![o] = <<>>]
    /\ insecure' = <<>>
    /\ UNCHANGED <<dom, url, timers, loaded, observers>>

\* The callback of one observer.  parentNode of an element that is not in the document
\* any more is null, also when this callback has removed it for an earlier record: the
\* exception ends the callback, and nothing is reported.
ObserverRuns(o) ==
    /\ records[o] # <<>>
    /\ \A p \in 1..(o - 1) : records[p] = <<>>
    /\ LET caught == Only(records[o], Caught)
           gone == {i \in DOMAIN caught :
                       caught[i] \notin ToSet(dom) \/ \E k \in 1..(i - 1) : caught[k] = caught[i]}
           removed == IF gone = {} THEN ToSet(caught)
                      ELSE {caught[i] : i \in {k \in DOMAIN caught : \A g \in gone : k < g}}
       IN  /\ dom' = Only(dom, Elems \ removed)
           /\ hijack' = IF gone # {} THEN <<>>
                        ELSE InBatches([i \in DOMAIN caught |-> EntryOf(caught[i])])
    /\ records' = [records EXCEPT ![o] = <<>>]
    /\ insecure' = <<>>
    /\ UNCHANGED <<url, timers, loaded, observers>>

HijackNext ==
    \/ onLoad \/ Scan
    \/ \E e \in Elems : Insert(e) \/ PageRemoves(e) \/ \E u \in Urls : SetAttribute(e, u)
    \/ \E o \in 1..2 : ObserverRuns(o)

HijackSpec == HijackInit /\ [][HijackNext]_hijackVars

-----------------------------------------------------------------------------
(* Properties. *)

Foreign(doc) == Only(doc, ForeignElems)

\* How often an entry is reported.
Reports(batches, x) == Len(Only(FlattenSeq(batches), {x}))

\* A scan reports every foreign element of the document once, in batches that are neither
\* empty nor too long; if it removes, it leaves none but AREA elements, although its loop
\* over the live collection passes over neighbours with the same address: they are tried
\* again.
ScanIsComplete ==
    timers' < timers =>
        /\ removeError => ToSet(Foreign(dom')) \subseteq Areas
        /\ \A x \in {EntryOf(e) : e \in ToSet(Foreign(dom))} :
              Reports(hijack', x) = Len(Only(Foreign(dom), {e \in Elems : EntryOf(e) = x}))
        /\ \A i \in DOMAIN hijack' : Len(hijack'[i]) \in 1..Batch
        /\ \A i \in DOMAIN insecure' : Len(insecure'[i]) \in 1..Batch

\* An observer whose elements are all still there removes every foreign one with http, if
\* none of those was inserted twice in the task.  (The second record of one makes the
\* callback end before it has come to those behind it, and before anything is reported.)
ObserverIsComplete ==
    \A o \in 1..2 :
        /\ records[o] # <<>> /\ records'[o] = <<>>
        /\ ToSet(records[o]) \subseteq ToSet(dom)
        /\ \A i, j \in DOMAIN records[o] :
              records[o][i] = records[o][j] /\ records[o][i] \in Caught => i = j
        => \A e \in ToSet(records[o]) : e \in Caught => e \notin ToSet(dom')

ScanFindsAll == [][ScanIsComplete]_hijackVars
ObserverRemoves == [][ObserverIsComplete]_hijackVars
=============================================================================
