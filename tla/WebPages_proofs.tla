-------------------------- MODULE WebPages_proofs --------------------------
(***************************************************************************)
(* Proofs about WebPages, for every set of addresses and any number of     *)
(* builds and processes.  What the server answers to one request is a      *)
(* matter of its code alone (AnswersSound); the invariants then carry it   *)
(* through the browser's cache, the redirects and the deployments made     *)
(* while a request is under way.                                           *)
(***************************************************************************)
EXTENDS WebPages, TLAPS

\* The way up a document shown at p has to go by.
Up(p) == Len(p.segs) - (IF p.slash THEN 0 ELSE 1)

\* A document of build b that finds its parts from the address p; true of
\* what is no document.
Good(doc, b, p) ==
  "boot" \in DOMAIN doc =>
    /\ {doc.boot.app, doc.head.of} = {b}
    /\ FoundFrom(p) => {doc.head.at, doc.boot.at} = {Up(p)}

\* A request as the browser sends it.
IsRequest(q) ==
  /\ q = [method |-> q.method, path |-> q.path, origin |-> q.origin, form |-> q.form,
          accept |-> q.accept, match |-> q.match, slashed |-> q.slashed]
  /\ q.path \in Addresses
  /\ q.slashed \in BOOLEAN
  /\ q.slashed => EndsWith(q.path, "__data.json")

\* A document of a page's own address, made of a route of the manifest.
Canonical(p) == p = Home \/ ~p.slash

\* What holds of every answer a to q of a process of build b.
Sound(q, a, b) ==
  /\ a.kind \in {"document", "env"} => Good(a.doc, b, q.path)
  /\ a.status = 304 => q.match # Nothing /\ Good(q.match, b, q.path)
  /\ a.status = 200 /\ a.tag # Nothing => a.kind \in {"document", "env"} /\ a.tag = a.doc
  /\ a.status = 200 /\ a.kind = "document" => Canonical(q.path)
  /\ a.status = 308 => a.to \in Addresses /\ ~a.to.slash /\ ~Canonical(q.path)

\* The tag a request carries is that of the copy the browser keeps of the
\* address, also while the request and its answer are under way.
Carried(q) == q.match # Nothing => cache # Nothing /\ cache.path = q.path /\ cache.is.doc = q.match

ProcessInv == process \in [number : Nat, build : Nat, is : {"starting", "ready", "failed"}] /\ build \in Nat

CacheInv ==
  cache # Nothing =>
    /\ cache = [path |-> cache.path, is |-> [doc |-> cache.is.doc, tag |-> cache.is.doc, by |-> cache.is.by]]
    /\ Good(cache.is.doc, cache.is.by.build, cache.path)

RequestInv == request # Nothing => IsRequest(request) /\ Carried(request)

ReplyInv ==
  reply # Nothing =>
    /\ IsRequest(reply.to) /\ Carried(reply.to)
    /\ Sound(reply.to, reply.is, reply.by.build)

\* One request at a time; the second of two is for the address the first was
\* redirected to.
HopsInv ==
  /\ request = Nothing \/ reply = Nothing
  /\ hops \in {0, 1}
  /\ hops = 1 /\ request # Nothing => ~request.path.slash
  /\ hops = 1 /\ reply # Nothing => ~reply.to.path.slash

ShownInv == shown # Nothing => Good(shown.is.doc, shown.is.by.build, shown.path)

PagesInv == ProcessInv /\ CacheInv /\ RequestInv /\ ReplyInv /\ HopsInv /\ ShownInv

-----------------------------------------------------------------------------
(* What the server answers.                                                *)

\* No node says anything of trailing slashes or of doing without scripts.
LEMMA Options == \A nodes : csr(nodes) = TRUE /\ get_option(nodes, "trailingSlash", "never") = "never"
<1> TAKE nodes
<1>1. \A n : DOMAIN universal(n) \subseteq {"ssr", "prerender"}
  BY DEF universal
<1>2. {i \in DOMAIN nodes : "csr" \in DOMAIN universal(nodes[i])} = {}
  BY <1>1
<1>3. {i \in DOMAIN nodes : "trailingSlash" \in DOMAIN universal(nodes[i])} = {}
  BY <1>1
<1> QED BY <1>2, <1>3 DEF csr, get_option

\* Segments, among them one that the prover does not know to be a string.
Names == STRING \cup {"x.html"}

LEMMA StripData ==
  ASSUME NEW p \in Addresses, has_data_suffix(p), FoundFrom(p), NEW slash \in BOOLEAN, slash => EndsWith(p, "__data.json")
  PROVE  WayUp(strip_data_suffix(p, slash), TRUE) = Up(p)
<1>1. p.segs \in Seq(STRING) /\ p.segs # << >> /\ ~p.slash /\ Len(p.segs) \in Nat \ {0}
  BY DEF Addresses, has_data_suffix, EndsWith
<1>2. Front(p.segs) \in Seq(STRING) /\ Len(Front(p.segs)) = Len(p.segs) - 1
  BY <1>1 DEF Front
<1>3. CASE EndsWith(p, "x.html__data.json")
  <2> DEFINE segs == Append(Front(p.segs), "x.html")
             t == [segs |-> segs, slash |-> FALSE]
  <2>1. Last(p.segs) = "x.html__data.json"
    BY <1>3 DEF EndsWith
  <2>2. ~slash /\ strip_data_suffix(p, slash) = t
    BY <1>3, <2>1 DEF EndsWith, strip_data_suffix
  <2>3. segs \in Seq(Names) /\ Len(segs) = Len(p.segs) /\ segs[Len(segs)] = "x.html"
    <3> DEFINE f == Front(p.segs)
    <3>1. f \in Seq(Names) /\ "x.html" \in Names
      BY <1>2 DEF Names
    <3> HIDE DEF f
    <3>2. Append(f, "x.html") \in Seq(Names) /\ Len(Append(f, "x.html")) = Len(f) + 1
      BY <3>1
    <3>3. Len(f) \in Nat /\ Append(f, "x.html")[Len(f) + 1] = "x.html"
      BY <3>1
    <3> QED BY <1>1, <1>2, <3>2, <3>3 DEF f
  <2>4. EndsWith(t, "x.html")
    BY <1>1, <2>3 DEF EndsWith, Last
  <2>5. Front(segs) \in Seq(Names) /\ Len(Front(segs)) = Len(segs) - 1
    BY <1>1, <2>3 DEF Front
  <2>6. Len(Append(Front(segs), "x.html__data.json")) = Len(p.segs)
    BY <1>1, <2>3, <2>5
  <2> HIDE DEF segs
  <2> QED BY <1>1, <2>2, <2>4, <2>6 DEF WayUp, Up, add_data_suffix
<1>4. CASE ~EndsWith(p, "x.html__data.json")
  <2>1. EndsWith(p, "__data.json") /\ strip_data_suffix(p, slash) = Stripped(p, slash)
    BY <1>4 DEF has_data_suffix, strip_data_suffix
  <2>2. CASE Len(p.segs) = 1
    <3>1. ~EndsWith(Home, "x.html") /\ Len(Append(Home.segs, "__data.json")) = 1
      BY DEF Home, EndsWith
    <3> QED BY <1>1, <2>1, <2>2, <3>1 DEF Stripped, WayUp, Up, add_data_suffix
  <2>3. CASE Len(p.segs) # 1
    <3> DEFINE t == [segs |-> Front(p.segs), slash |-> slash]
    <3>1. Stripped(p, slash) = t
      BY <2>3 DEF Stripped
    <3>2. Last(Front(p.segs)) = p.segs[Len(p.segs) - 1]
      <4> DEFINE n == Len(p.segs)
      <4>1. n \in Nat \ {0, 1}
        BY <1>1, <2>3
      <4> HIDE DEF n
      <4>2. n - 1 \in Nat /\ n - 1 \in 1 .. n - 1
        BY <4>1
      <4>3. SubSeq(p.segs, 1, n - 1)[n - 1] = p.segs[n - 1]
        BY <1>1, <4>1, <4>2 DEF n
      <4> QED BY <1>2, <4>3 DEF Front, Last, n
    <3>3. Len(p.segs) > 1
      <4> DEFINE n == Len(p.segs)
      <4>1. n \in Nat \ {0, 1}
        BY <1>1, <2>3
      <4> HIDE DEF n
      <4>2. n > 1
        BY <4>1
      <4> QED BY <4>2 DEF n
    <3>4. p.segs[Len(p.segs) - 1] # "x.html"
      BY <2>1, <3>3 DEF FoundFrom
    <3>5. ~EndsWith(t, "x.html")
      BY <3>2, <3>4 DEF EndsWith
    <3>6. Len(Append(t.segs, "__data.json")) = Len(p.segs)
      BY <1>1, <1>2
    <3> QED BY <1>1, <2>1, <3>1, <3>5, <3>6 DEF WayUp, Up, add_data_suffix
  <2> QED BY <2>2, <2>3
<1> QED BY <1>3, <1>4

\* The server goes up from the address it goes by as a browser does from the
\* address it asked for.
LEMMA PathnameUp ==
  ASSUME NEW q, IsRequest(q), FoundFrom(q.path), has_data_suffix(q.path) \/ ~is_remote(q.path)
  PROVE  WayUp(Pathname(q), has_data_suffix(q.path)) = Up(q.path)
<1>1. q.path \in Addresses /\ q.slashed \in BOOLEAN /\ (q.slashed => EndsWith(q.path, "__data.json"))
  BY DEF IsRequest
<1> USE DEF FoundFrom
<1>2. CASE has_data_suffix(q.path)
  <2>1. Pathname(q) = strip_data_suffix(q.path, q.slashed)
    BY <1>2 DEF Pathname
  <2>2. WayUp(strip_data_suffix(q.path, q.slashed), TRUE) = Up(q.path)
    BY <1>1, <1>2, StripData
  <2> QED BY <1>2, <2>1, <2>2 DEF WayUp
<1>3. CASE ~has_data_suffix(q.path)
  <2>1. Pathname(q) = q.path
    BY <1>3 DEF Pathname
  <2>2. Len(q.path.segs) \in Nat /\ q.path.slash \in BOOLEAN
    BY <1>1 DEF Addresses
  <2>3. WayUp(q.path, FALSE) = Up(q.path)
    <3>1. CASE q.path.slash
      BY <2>2, <3>1 DEF WayUp, Up
    <3>2. CASE ~q.path.slash
      BY <2>2, <3>2 DEF WayUp, Up
    <3> QED BY <3>1, <3>2
  <2>4. WayUp(q.path, has_data_suffix(q.path)) = WayUp(q.path, FALSE)
    BY <1>3 DEF WayUp
  <2> QED BY <2>1, <2>3, <2>4
<1> QED BY <1>2, <1>3

\* An event of the request q, whatever route was found.
Of(event, q) ==
  /\ event.request = q
  /\ event.url = Pathname(q)
  /\ event.isDataRequest = has_data_suffix(q.path)
  /\ event.isRemoteRequest = is_remote(q.path)

LEMMA Rendered ==
  ASSUME NEW q, IsRequest(q), NEW event, Of(event, q), NEW status, NEW nodes, NEW config,
         has_data_suffix(q.path) \/ has_resolution_suffix(q.path) \/ ~is_remote(q.path)
  PROVE  LET a == render_response(event, status, nodes, config) IN
         a.kind = "document" /\ a.status = status /\ a.tag = a.doc /\ Good(a.doc, process.build, q.path)
<1> DEFINE up == WayUp(event.url, event.isDataRequest)
           links == Links(nodes, up)
           doc == [head |-> Styles(links), boot |-> Boot(config, up)]
           a == render_response(event, status, nodes, config)
<1>1. a = Sent(doc, links, status)
  BY DEF render_response
<1>2. doc.boot = [app |-> process.build, at |-> up]
  BY Options DEF Boot
<1>3. doc.head.of = process.build /\ doc.head.at = up
  BY DEF Styles, Links
<1>4. FoundFrom(q.path) => up = Up(q.path)
  BY PathnameUp DEF Of, FoundFrom
<1>5. Good(doc, process.build, q.path)
  <2> HIDE DEF doc, up
  <2> QED BY <1>2, <1>3, <1>4 DEF Good
<1>6. a.kind = "document" /\ a.status = status /\ a.doc = doc /\ a.tag = doc
  <2> HIDE DEF doc, links
  <2> QED BY <1>1 DEF Sent, Answer, Hash
<1> QED BY <1>5, <1>6

\* What is refused, redirected or answered with no document.
LEMMA Plain ==
  ASSUME NEW q, NEW b, NEW a, a.kind \notin {"document", "env"}, a.status \notin {304, 308},
         a.tag = Nothing
  PROVE  Sound(q, a, b)
BY DEF Sound

LEMMA ErrorPage ==
  ASSUME NEW q, IsRequest(q), NEW event, Of(event, q), NEW status \in {400, 404},
         has_data_suffix(q.path) \/ has_resolution_suffix(q.path) \/ ~is_remote(q.path)
  PROVE  Sound(q, respond_with_error(event, status), process.build)
<1> DEFINE a == respond_with_error(event, status)
<1>1. a.kind = "document" /\ a.status = status /\ a.tag = a.doc /\ Good(a.doc, process.build, q.path)
  BY Rendered DEF respond_with_error
<1>2. Sound(q, a, process.build)
  <2> HIDE DEF a
  <2> QED BY <1>1 DEF Sound
<1> QED BY <1>2

LEMMA Fatal ==
  ASSUME NEW q, NEW event, NEW b
  PROVE  Sound(q, handle_fatal_error(event, 404), b)
<1>1. Sound(q, Answer(404, "json"), b)
  <2>1. Answer(404, "json").kind = "json" /\ Answer(404, "json").status = 404 /\ Answer(404, "json").tag = Nothing
    BY DEF Answer
  <2> QED BY <2>1, Plain
<1>2. Sound(q, Answer(404, "static_error"), b)
  <2>1. /\ Answer(404, "static_error").kind = "static_error"
        /\ Answer(404, "static_error").status = 404
        /\ Answer(404, "static_error").tag = Nothing
    BY DEF Answer
  <2> QED BY <2>1, Plain
<1> QED BY <1>1, <1>2 DEF handle_fatal_error, static_error_page

\* A page is rendered for its own address only.
LEMMA PageRendered ==
  ASSUME NEW q, IsRequest(q), NEW event, Of(event, q), Canonical(q.path), ~is_remote(q.path)
  PROVE  Sound(q, render_page(event), process.build)
<1> DEFINE nodes == load_page_nodes(event.route)
           a == render_page(event)
<1>1. CASE is_action_json_request(event.request)
  <2>1. a = [Answer(405, "json") EXCEPT !.allow = {"GET"}]
    BY <1>1 DEF render_page, handle_action
  <2>2. a.kind = "json" /\ a.status = 405 /\ a.tag = Nothing
    <3> HIDE DEF a
    <3> QED BY <2>1 DEF Answer
  <2>3. Sound(q, a, process.build)
    <3> HIDE DEF a
    <3> QED BY <2>2, Plain
  <2> QED BY <2>3
<1>2. CASE ~is_action_json_request(event.request) /\ event.request.method # "POST"
  <2>1. a = render_response(event, 200, nodes, nodes)
    BY <1>2 DEF render_page
  <2>2. a.kind = "document" /\ a.status = 200 /\ a.tag = a.doc /\ Good(a.doc, process.build, q.path)
    <3> HIDE DEF a, nodes
    <3> QED BY <2>1, Rendered
  <2>3. Sound(q, a, process.build)
    <3> HIDE DEF a
    <3> QED BY <2>2 DEF Sound
  <2> QED BY <2>3
<1>3. CASE ~is_action_json_request(event.request) /\ event.request.method = "POST"
  <2> DEFINE r == render_response(event, 405, nodes, nodes)
  <2>1. a = [r EXCEPT !.allow = {"GET"}]
    BY <1>3 DEF render_page
  <2>2. r.kind = "document" /\ r.status = 405 /\ r.tag = r.doc /\ Good(r.doc, process.build, q.path)
    <3> HIDE DEF nodes
    <3> QED BY Rendered
  <2>3. {"kind", "status", "tag", "doc"} \subseteq DOMAIN r
    BY DEF render_response, Sent, Answer
  <2>4. a.kind = r.kind /\ a.status = r.status /\ a.tag = r.tag /\ a.doc = r.doc
    <3> HIDE DEF a, r
    <3> QED BY <2>1, <2>3
  <2>5. Sound(q, a, process.build)
    <3> HIDE DEF a, r
    <3> QED BY <2>2, <2>4 DEF Sound
  <2> QED BY <2>5
<1> QED BY <1>1, <1>2, <1>3

\* Of all there is left to do once the address was looked at.
LEMMA Resolved ==
  ASSUME NEW q, IsRequest(q), NEW event, Of(event, q),
         has_resolution_suffix(q.path) => ~Decodes(event.url),
         ~Decodes(event.url) \/ event.route = Nothing \/ event.isDataRequest \/ is_remote(q.path) \/ Canonical(q.path)
  PROVE  Sound(q, resolve2(event), process.build)
<1> USE DEF Of
<1> DEFINE a == resolve2(event)
<1>1. is_remote(q.path) /\ ~has_resolution_suffix(q.path) /\ ~has_data_suffix(q.path) => Decodes(event.url)
  BY DEF Pathname, Decodes, Home
<1>2. CASE ~Decodes(event.url)
  <2>1. a = respond_with_error(event, 400)
    BY <1>2 DEF resolve2
  <2> QED BY <1>1, <1>2, <2>1, ErrorPage
<1>3. CASE Decodes(event.url) /\ event.isRemoteRequest
  <2>1. a = handle_fatal_error(event, 404)
    BY <1>3 DEF resolve2, handle_remote_call
  <2> QED BY <2>1, Fatal
<1>4. CASE Decodes(event.url) /\ ~event.isRemoteRequest /\ event.route = Nothing
  <2>1. a = respond_with_error(event, 404)
    BY <1>4 DEF resolve2
  <2> QED BY <1>4, <2>1, ErrorPage
<1>5. CASE Decodes(event.url) /\ ~event.isRemoteRequest /\ event.route # Nothing /\ event.isDataRequest
  <2>1. a = render_data(event)
    BY <1>5 DEF resolve2
  <2>2. render_data(event).kind = "json" /\ render_data(event).status = 200 /\ render_data(event).tag = Nothing
    BY DEF render_data, Answer
  <2> QED BY <2>1, <2>2, Plain
<1>6. CASE Decodes(event.url) /\ ~event.isRemoteRequest /\ event.route # Nothing /\ ~event.isDataRequest
  <2>1. CASE event.request.method \in {"GET", "HEAD", "POST"}
    <3>1. a = render_page(event)
      BY <1>6, <2>1 DEF resolve2
    <3> QED BY <1>6, <3>1, PageRendered
  <2>2. CASE event.request.method \notin {"GET", "HEAD", "POST"}
    <3> DEFINE status == IF event.request.method = "OPTIONS" THEN 204 ELSE 405
               x == [Answer(status, "text") EXCEPT !.allow = AllowedOnPages]
    <3>1. a = x
      BY <1>6, <2>2 DEF resolve2
    <3>2. x.kind = "text" /\ x.status \in {204, 405} /\ x.tag = Nothing
      BY DEF Answer
    <3>3. Sound(q, x, process.build)
      <4> HIDE DEF x
      <4> QED BY <3>2, Plain
    <3> QED BY <3>1, <3>3
  <2> QED BY <2>1, <2>2
<1> QED BY <1>2, <1>3, <1>4, <1>5, <1>6

\* The comparison of tags leaves an answer sound: the browser is told to keep
\* what it would have been sent.
LEMMA Compared ==
  ASSUME NEW q, NEW event, event.request = q, Sound(q, resolve2(event), process.build)
  PROVE  Sound(q, handle(event), process.build)
<1> DEFINE r == resolve2(event)
           same == r.status = 200 /\ r.tag # Nothing /\ event.request.match = r.tag
           x == [Answer(304, "empty") EXCEPT !.tag = r.tag]
<1>1. CASE same
  <2>1. handle(event) = x
    BY <1>1 DEF handle
  <2>2. x.kind = "empty" /\ x.status = 304
    BY DEF Answer
  <2>3. Sound(q, r, process.build)
    OBVIOUS
  <2>4. Sound(q, x, process.build)
    <3> HIDE DEF x, r
    <3> QED BY <1>1, <2>2, <2>3 DEF Sound
  <2> QED BY <2>1, <2>4
<1>2. CASE ~same
  <2>1. handle(event) = r
    BY <1>2 DEF handle
  <2> QED BY <2>1
<1> QED BY <1>1, <1>2

\* A page that stands at another address than its own has one it is sent to.
LEMMA Normalized ==
  ASSUME NEW p \in Addresses, NEW nodes,
         normalize_path(p, trailing_slash(p, nodes)) # p
  PROVE  /\ ~Canonical(p)
         /\ normalize_path(p, trailing_slash(p, nodes)) \in Addresses
         /\ ~normalize_path(p, trailing_slash(p, nodes)).slash
<1>1. p.slash \in BOOLEAN /\ p.segs \in Seq(STRING) /\ (p.segs = << >> => p.slash)
      /\ p \in [segs : Seq(STRING), slash : BOOLEAN]
  BY DEF Addresses
<1>2. p # Home
  BY DEF normalize_path, Home
<1>3. trailing_slash(p, nodes) = "never"
  BY <1>2, Options DEF trailing_slash
<1>4. normalize_path(p, trailing_slash(p, nodes)) = [p EXCEPT !.slash = FALSE]
  BY <1>2, <1>3 DEF normalize_path
<1>5. /\ [p EXCEPT !.slash = FALSE] \in [segs : Seq(STRING), slash : BOOLEAN]
      /\ [p EXCEPT !.slash = FALSE].segs = p.segs
      /\ [p EXCEPT !.slash = FALSE].slash = FALSE
  <2>1. p = [segs |-> p.segs, slash |-> p.slash]
    BY DEF Addresses
  <2>2. [p EXCEPT !.slash = FALSE].segs = p.segs
    BY <2>1
  <2>3. [p EXCEPT !.slash = FALSE].slash = FALSE
    BY <1>1
  <2>4. [p EXCEPT !.slash = FALSE] \in [segs : Seq(STRING), slash : BOOLEAN]
    BY <1>1
  <2> QED BY <2>2, <2>3, <2>4
<1>6. p.slash
  <2>1. ASSUME p.slash = FALSE PROVE [p EXCEPT !.slash = FALSE] = p
    BY <1>1, <2>1
  <2> QED BY <1>1, <1>4, <2>1
<1>7. p.segs # << >>
  BY <1>1, <1>2, <1>6 DEF Home
<1> QED BY <1>1, <1>2, <1>4, <1>5, <1>6, <1>7 DEF Canonical, Addresses

LEMMA AlreadyNormal ==
  ASSUME NEW p \in Addresses, NEW nodes,
         normalize_path(p, trailing_slash(p, nodes)) = p
  PROVE  Canonical(p)
<1>1. CASE p # Home
  <2>1. normalize_path(p, trailing_slash(p, nodes)) = [p EXCEPT !.slash = FALSE]
    BY <1>1, Options DEF trailing_slash, normalize_path
  <2>2. [p EXCEPT !.slash = FALSE].slash = FALSE
    BY DEF Addresses
  <2> QED BY <2>1, <2>2 DEF Canonical
<1> QED BY <1>1 DEF Canonical

LEMMA PublicEnv ==
  ASSUME NEW q, NEW b, process.number \in Nat
  PROVE  Sound(q, get_public_env(q), b)
<1> DEFINE tag == [env |-> process.number]
           status == IF q.match = tag THEN 304 ELSE 200
           kind == IF q.match = tag THEN "empty" ELSE "env"
           a == [Answer(status, kind) EXCEPT !.doc = tag, !.tag = tag]
<1>1. get_public_env(q) = a
  BY DEF get_public_env
<1>2. a.status = status /\ a.kind = kind /\ a.tag = tag /\ a.doc = tag
  BY DEF Answer
<1>3. Good(tag, b, q.path)
  BY DEF Good
<1>4. Sound(q, a, b)
  <2>. tag # Nothing
    BY NothingAssumption
  <2>1. CASE q.match = tag
    <3> HIDE DEF a, tag
    <3> QED BY <1>2, <1>3, <2>1 DEF Sound
  <2>2. CASE q.match # tag
    <3> HIDE DEF a, tag
    <3> QED BY <1>2, <1>3, <2>2 DEF Sound
  <2> QED BY <2>1, <2>2
<1> QED BY <1>1, <1>4

\* An answer of the text kind, whatever its status is here.
LEMMA PlainAnswer ==
  ASSUME NEW q, NEW b, NEW status \in {400, 403, 404, 500}, NEW kind \in {"json", "text", "platform_error"}
  PROVE  Sound(q, Answer(status, kind), b)
<1>1. Answer(status, kind).kind = kind /\ Answer(status, kind).status = status /\ Answer(status, kind).tag = Nothing
  BY DEF Answer
<1> QED BY <1>1, Plain

\* Every answer of the server is sound.
LEMMA AnswersSound ==
  ASSUME NEW q, IsRequest(q), process.number \in Nat
  PROVE  Sound(q, internal_respond(q), process.build)
<1> DEFINE event == Event(q)
           path == event.url
           route == find_route(path)
           normal == normalize_path(path, trailing_slash(path, load_page_nodes(route)))
           found == [event EXCEPT !.route = route]
           redirect == [Answer(308, "empty") EXCEPT !.to = normal]
           moved == route # Nothing /\ ~event.isRemoteRequest /\ ~event.isDataRequest /\ normal # path
           env == path \in {[segs |-> <<"_app", f>>, slash |-> FALSE] : f \in {"env.js", "env.script.js"}}
           asset == ~event.isRemoteRequest /\ path # Home /\ path.segs[1] = "_app"
           a == internal_respond(q)
<1>1. Of(event, q) /\ event.request = q
  BY DEF Of, Event
<1>2. Of(found, q) /\ found.request = q /\ found.url = path /\ found.route = route
      /\ found.isDataRequest = event.isDataRequest
  <2> HIDE DEF route
  <2> QED BY DEF Of, Event
<1>3. CASE Forbidden(q)
  <2>1. a = Refusal(q)
    BY <1>3 DEF internal_respond
  <2>2. \E kind \in {"json", "text"} : Refusal(q) = Answer(403, kind)
    BY DEF Refusal
  <2> QED BY <2>1, <2>2, PlainAnswer
<1>4. CASE ~Forbidden(q) /\ ~Decodes(path)
  <2>1. a = handle(event)
    BY <1>4 DEF internal_respond
  <2>2. Sound(q, resolve2(event), process.build)
    <3> HIDE DEF event
    <3> QED BY <1>1, <1>4, Resolved
  <2> HIDE DEF event, a
  <2>3. Sound(q, a, process.build)
    BY <1>1, <2>1, <2>2, Compared
  <2> QED BY <2>3 DEF a
<1>5. CASE ~Forbidden(q) /\ Decodes(path) /\ has_resolution_suffix(q.path)
  <2>1. a = Answer(400, "text")
    BY <1>5 DEF internal_respond, resolve_route
  <2> QED BY <2>1, PlainAnswer
<1> DEFINE here == ~Forbidden(q) /\ Decodes(path) /\ ~has_resolution_suffix(q.path)
<1>6. CASE here /\ env
  <2>1. a = get_public_env(q)
    BY <1>6 DEF internal_respond
  <2> QED BY <2>1, PublicEnv
<1>7. CASE here /\ ~env /\ asset
  <2>1. a = Answer(404, "text")
    BY <1>7 DEF internal_respond
  <2> QED BY <2>1, PlainAnswer
<1>8. ~has_resolution_suffix(q.path) /\ ~event.isRemoteRequest /\ ~event.isDataRequest => path = q.path
  BY DEF Event, Pathname
<1>9. q.path \in Addresses
  BY DEF IsRequest
<1>10. CASE here /\ ~env /\ ~asset /\ moved
  <2>1. a = redirect
    BY <1>10 DEF internal_respond
  <2>2. redirect.kind = "empty" /\ redirect.status = 308 /\ redirect.tag = Nothing /\ redirect.to = normal
    <3> HIDE DEF normal
    <3> QED BY DEF Answer
  <2>3. path = q.path
    BY <1>8, <1>10
  <2>4. normal \in Addresses /\ ~normal.slash /\ ~Canonical(q.path)
    <3> HIDE DEF event, route
    <3> QED BY <1>9, <1>10, <2>3, Normalized
  <2>5. Sound(q, redirect, process.build)
    <3> HIDE DEF redirect, normal
    <3> QED BY <2>2, <2>4 DEF Sound
  <2> QED BY <2>1, <2>5
<1>11. CASE here /\ ~env /\ ~asset /\ ~moved
  <2>1. a = handle(found)
    BY <1>11 DEF internal_respond
  <2>2. CASE route = Nothing \/ event.isRemoteRequest \/ event.isDataRequest
    <3>1. Sound(q, resolve2(found), process.build)
      <4>1. is_remote(q.path) <=> event.isRemoteRequest
        BY DEF Event
      <4> HIDE DEF event, route, found
      <4> QED BY <1>2, <1>11, <2>2, <4>1, Resolved
    <3> HIDE DEF event, found, a
    <3>2. Sound(q, a, process.build)
      BY <1>2, <2>1, <3>1, Compared
    <3> QED BY <3>2 DEF a
  <2>3. CASE route # Nothing /\ ~event.isRemoteRequest /\ ~event.isDataRequest
    <3>1. path = q.path /\ normal = path
      BY <1>8, <1>11, <2>3
    <3>2. Canonical(q.path)
      <4> HIDE DEF event, route
      <4> QED BY <1>9, <3>1, AlreadyNormal
    <3>3. Sound(q, resolve2(found), process.build)
      <4> HIDE DEF event, route, found
      <4> QED BY <1>2, <1>11, <3>2, Resolved
    <3> HIDE DEF event, found, a
    <3>4. Sound(q, a, process.build)
      BY <1>2, <2>1, <3>3, Compared
    <3> QED BY <3>4 DEF a
  <2> QED BY <2>2, <2>3
<1> QED BY <1>3, <1>4, <1>5, <1>6, <1>7, <1>10, <1>11

-----------------------------------------------------------------------------
(* The steps.                                                              *)

LEMMA PagesInit == Init => PagesInv
BY DEF Init, Started, PagesInv, ProcessInv, CacheInv, RequestInv, ReplyInv, HopsInv, ShownInv

\* A process that starts or is replaced, by a new build too, changes nothing
\* of what is under way: an answer stays that of the process that gave it.
LEMMA ProcessSteps ==
  ASSUME PagesInv, Starts \/ Replaced \/ Deploy
  PROVE  PagesInv'
<1>1. UNCHANGED <<request, reply, cache, shown, hops>>
  BY DEF Starts, Replaced, Deploy
<1>2. ProcessInv'
  <2>1. CASE Starts
    BY <2>1 DEF Starts, PagesInv, ProcessInv
  <2>2. CASE Replaced
    BY <2>2 DEF Replaced, Started, PagesInv, ProcessInv
  <2>3. CASE Deploy
    BY <2>3 DEF Deploy, Started, PagesInv, ProcessInv
  <2> QED BY <2>1, <2>2, <2>3
<1>3. (CacheInv /\ RequestInv /\ ReplyInv /\ HopsInv /\ ShownInv)'
  BY <1>1 DEF PagesInv, CacheInv, RequestInv, ReplyInv, HopsInv, ShownInv, Carried
<1> QED BY <1>2, <1>3 DEF PagesInv

LEMMA RespondStep ==
  ASSUME PagesInv, Respond
  PROVE  PagesInv'
<1> USE DEF PagesInv
<1>1. /\ request # Nothing /\ reply = Nothing
      /\ reply' = [to |-> request, by |-> process, is |-> Awaited(request)]
      /\ request' = Nothing
      /\ UNCHANGED <<build, process, cache, shown, hops>>
  BY DEF Respond, HopsInv
<1>2. IsRequest(request) /\ Carried(request)
  BY <1>1 DEF RequestInv
<1>3. Sound(request, Awaited(request), process.build)
  <2>1. process.number \in Nat
    BY DEF ProcessInv
  <2> QED BY <1>2, <2>1, AnswersSound, PlainAnswer DEF Awaited
<1>4. reply'.to = request /\ reply'.is = Awaited(request) /\ reply'.by = process
  BY <1>1
<1>5. ReplyInv'
  <2>1. IsRequest(reply'.to) /\ Carried(reply.to)'
    BY <1>1, <1>2, <1>4 DEF Carried
  <2>2. Sound(reply'.to, reply'.is, reply'.by.build)
    BY <1>3, <1>4
  <2> QED BY <2>1, <2>2 DEF ReplyInv
<1>6. HopsInv'
  BY <1>1, <1>4 DEF HopsInv
<1>7. (ProcessInv /\ CacheInv /\ RequestInv /\ ShownInv)'
  BY <1>1 DEF ProcessInv, CacheInv, RequestInv, ShownInv
<1> QED BY <1>5, <1>6, <1>7

LEMMA VisitStep ==
  ASSUME PagesInv, NEW q \in Requests, Visit(q)
  PROVE  PagesInv'
<1> USE DEF PagesInv
<1> DEFINE match == IF q.method \in {"GET", "HEAD"} THEN Kept(q.path) ELSE Nothing
<1>1. /\ reply = Nothing
      /\ request' = [q EXCEPT !.match = match]
      /\ hops' = 0
      /\ UNCHANGED <<build, process, reply, cache, shown>>
  BY DEF Visit, Idle
<1>2. IsRequest(request') /\ request'.path = q.path /\ request'.match = match
  <2>1. q \in [method : Methods, path : Paths, origin : {"same", "other"}, form : BOOLEAN,
                accept : Accepts, match : {Nothing}, slashed : BOOLEAN]
    BY DEF Requests
  <2>2. q.path \in Addresses /\ q.slashed \in BOOLEAN /\ (q.slashed => EndsWith(q.path, "__data.json"))
    <3>1. q.slashed => EndsWith(q.path, "__data.json")
      BY DEF Requests
    <3> QED BY <2>1, <3>1, PathsAssumption
  <2>3. q = [method |-> q.method, path |-> q.path, origin |-> q.origin, form |-> q.form,
             accept |-> q.accept, match |-> q.match, slashed |-> q.slashed]
    BY <2>1
  <2>4. request' = [method |-> q.method, path |-> q.path, origin |-> q.origin, form |-> q.form,
                    accept |-> q.accept, match |-> match, slashed |-> q.slashed]
    <3> HIDE DEF match
    <3> QED BY <1>1, <2>3
  <2> HIDE DEF match
  <2> QED BY <2>2, <2>4 DEF IsRequest
<1>3. Carried(request)'
  <2>1. match # Nothing => cache # Nothing /\ cache.path = q.path /\ cache.is.doc = match
    <3>1. cache # Nothing => cache.is.tag = cache.is.doc
      BY DEF CacheInv
    <3> QED BY <3>1 DEF Kept
  <2> HIDE DEF match
  <2> QED BY <1>1, <1>2, <2>1 DEF Carried
<1>4. RequestInv'
  BY <1>2, <1>3 DEF RequestInv
<1>5. (ProcessInv /\ CacheInv /\ ReplyInv /\ HopsInv /\ ShownInv)'
  BY <1>1 DEF ProcessInv, CacheInv, ReplyInv, HopsInv, ShownInv
<1> QED BY <1>4, <1>5

LEMMA FollowStep ==
  ASSUME PagesInv, Follow
  PROVE  PagesInv'
<1> USE DEF PagesInv
<1> DEFINE q == reply.to
           to == reply.is.to
<1>1. /\ reply # Nothing /\ reply.is.status = 308 /\ reply' = Nothing
      /\ request' = [q EXCEPT !.path = to, !.match = Kept(to)]
      /\ hops' = hops + 1
      /\ UNCHANGED <<build, process, cache, shown>>
  BY DEF Follow
<1>2. IsRequest(q) /\ to \in Addresses /\ ~to.slash /\ q.path.slash
  <2>1. IsRequest(q) /\ Sound(q, reply.is, reply.by.build)
    BY <1>1 DEF ReplyInv
  <2>2. to \in Addresses /\ ~to.slash /\ ~Canonical(q.path)
    BY <1>1, <2>1 DEF Sound
  <2> QED BY <2>1, <2>2 DEF Canonical
<1>3. IsRequest(request') /\ request'.path = to /\ request'.match = Kept(to)
  <2>1. q = [method |-> q.method, path |-> q.path, origin |-> q.origin, form |-> q.form,
             accept |-> q.accept, match |-> q.match, slashed |-> q.slashed] /\ q.slashed = FALSE
    BY <1>2 DEF IsRequest, EndsWith
  <2>2. request' = [method |-> q.method, path |-> to, origin |-> q.origin, form |-> q.form,
                    accept |-> q.accept, match |-> Kept(to), slashed |-> q.slashed]
    <3> HIDE DEF q, to
    <3> QED BY <1>1, <2>1
  <2> HIDE DEF q, to
  <2> QED BY <1>2, <2>1, <2>2 DEF IsRequest
<1>4. Carried(request)'
  <2>1. Kept(to) # Nothing => cache # Nothing /\ cache.path = to /\ cache.is.doc = Kept(to)
    <3>1. cache # Nothing => cache.is.tag = cache.is.doc
      BY DEF CacheInv
    <3> QED BY <3>1 DEF Kept
  <2>2. request'.path = to /\ request'.match = Kept(to) /\ cache' = cache
    BY <1>1, <1>3
  <2> HIDE DEF to
  <2> QED BY <2>1, <2>2 DEF Carried
<1>5. RequestInv'
  BY <1>3, <1>4 DEF RequestInv
<1>6. hops = 0
  BY <1>1, <1>2 DEF HopsInv
<1>7. HopsInv'
  <2> HIDE DEF to
  <2> QED BY <1>1, <1>2, <1>3, <1>6 DEF HopsInv
<1>8. (ProcessInv /\ CacheInv /\ ReplyInv /\ ShownInv)'
  BY <1>1 DEF ProcessInv, CacheInv, ReplyInv, ShownInv
<1> QED BY <1>5, <1>7, <1>8

LEMMA TakeStep ==
  ASSUME PagesInv, Take
  PROVE  PagesInv'
<1> USE DEF PagesInv
<1> DEFINE a == reply.is
           p == reply.to.path
           got == [doc |-> a.doc, tag |-> a.tag, by |-> reply.by]
           b == reply.by.build
<1>1. /\ reply # Nothing /\ reply' = Nothing /\ request = Nothing
      /\ cache' = IF a.status = 200 /\ a.tag # Nothing /\ reply.to.method = "GET"
                    THEN [path |-> p, is |-> got] ELSE cache
      /\ shown' = IF reply.to.method = "HEAD" THEN shown
                  ELSE IF a.status = 304 THEN [cache EXCEPT !.is.by = reply.by]
                  ELSE IF a.kind \in {"document", "env"} THEN [path |-> p, is |-> got]
                  ELSE Nothing
      /\ UNCHANGED <<build, process, request, hops>>
  BY DEF Take, HopsInv
<1>2. Carried(reply.to) /\ Sound(reply.to, a, b)
  BY <1>1 DEF ReplyInv
<1>3. CacheInv'
  <2>1. CASE a.status = 200 /\ a.tag # Nothing /\ reply.to.method = "GET"
    <3>1. a.tag = a.doc /\ Good(a.doc, b, p)
      BY <1>2, <2>1 DEF Sound
    <3>2. cache' = [path |-> p, is |-> [doc |-> a.doc, tag |-> a.doc, by |-> reply.by]]
      BY <1>1, <2>1, <3>1
    <3>3. cache'.path = p /\ cache'.is.doc = a.doc /\ cache'.is.by = reply.by /\ cache'.is.by.build = b
      <4> HIDE DEF a, p
      <4> QED BY <3>2
    <3> HIDE DEF a, p, b
    <3> QED BY <3>1, <3>2, <3>3 DEF CacheInv
  <2>2. CASE ~(a.status = 200 /\ a.tag # Nothing /\ reply.to.method = "GET")
    BY <1>1, <2>2 DEF CacheInv
  <2> QED BY <2>1, <2>2
<1>4. ShownInv'
  <2>1. CASE reply.to.method = "HEAD"
    BY <1>1, <2>1 DEF ShownInv
  <2>2. CASE reply.to.method # "HEAD" /\ a.status = 304
    <3>1. reply.to.match # Nothing /\ Good(reply.to.match, b, p)
      BY <1>2, <2>2 DEF Sound
    <3>2. cache # Nothing /\ cache.path = p /\ cache.is.doc = reply.to.match
      BY <1>2, <3>1 DEF Carried
    <3>3. cache = [path |-> cache.path, is |-> [doc |-> cache.is.doc, tag |-> cache.is.doc, by |-> cache.is.by]]
      BY <3>2 DEF CacheInv
    <3>4. shown' = [cache EXCEPT !.is.by = reply.by]
      BY <1>1, <2>2
    <3>5. shown'.path = p /\ shown'.is.doc = reply.to.match /\ shown'.is.by = reply.by
      <4> DEFINE doc == cache.is.doc
                 by == cache.is.by
      <4>1. cache = [path |-> p, is |-> [doc |-> doc, tag |-> doc, by |-> by]]
        BY <3>2, <3>3
      <4>2. doc = reply.to.match
        BY <3>2
      <4> HIDE DEF doc, by, p
      <4> QED BY <3>4, <4>1, <4>2
    <3>6. shown'.is.by.build = b
      BY <3>5
    <3> HIDE DEF p, b
    <3> QED BY <3>1, <3>5, <3>6 DEF ShownInv
  <2>3. CASE reply.to.method # "HEAD" /\ a.status # 304 /\ a.kind \in {"document", "env"}
    <3>1. Good(a.doc, b, p)
      BY <1>2, <2>3 DEF Sound
    <3>2. shown' = [path |-> p, is |-> got]
      BY <1>1, <2>3
    <3>3. shown'.path = p /\ shown'.is.doc = a.doc /\ shown'.is.by.build = b
      BY <3>2
    <3> HIDE DEF a, p, b
    <3> QED BY <3>1, <3>3 DEF ShownInv
  <2>4. CASE reply.to.method # "HEAD" /\ a.status # 304 /\ a.kind \notin {"document", "env"}
    BY <1>1, <2>4 DEF ShownInv
  <2> QED BY <2>1, <2>2, <2>3, <2>4
<1>5. (ProcessInv /\ RequestInv /\ ReplyInv /\ HopsInv)'
  BY <1>1 DEF ProcessInv, RequestInv, ReplyInv, HopsInv
<1> QED BY <1>3, <1>4, <1>5

LEMMA PagesStep == PagesInv /\ [Next]_vars => PagesInv'
<1> SUFFICES ASSUME PagesInv, [Next]_vars PROVE PagesInv'
  OBVIOUS
<1>1. CASE UNCHANGED vars
  BY <1>1 DEF vars, PagesInv, ProcessInv, CacheInv, RequestInv, ReplyInv, HopsInv, ShownInv, Carried
<1>2. CASE Next
  BY <1>2, ProcessSteps, RespondStep, VisitStep, FollowStep, TakeStep DEF Next
<1> QED BY <1>1, <1>2

-----------------------------------------------------------------------------

\* The argument the three theorems share: what is under way, kept and shown is
\* as the server's code made it, for the address and by the build it says.
THEOREM PagesInvariant == Spec => []PagesInv
BY PagesInit, PagesStep, PTL DEF Spec

\* One redirect at the most leads to a page's one address, and no document of
\* a page is made for another (normalize_path and internal_respond).
THEOREM PagesHaveOneAddress == Spec => []OneAddress
<1>1. PagesInv => OneAddress
  BY DEF PagesInv, HopsInv, ReplyInv, Sound, Canonical, OneAddress
<1> QED BY <1>1, PagesInvariant, PTL

\* What a tab shows is of the build that answered it last, through every order
\* of deployments, redirects, kept copies and answers that leave the browser
\* with its copy (handle's comparison of the tags).
THEOREM DeploymentsShow == Spec => []ShownIsDeployed
<1>1. PagesInv => ShownIsDeployed
  BY DEF PagesInv, ShownInv, Good, ShownIsDeployed, IsDocument
<1> QED BY <1>1, PagesInvariant, PTL

\* The links of every document shown start at the root of the site, whichever
\* address it has (render_response's base), but for the error page of a
\* malformed route request.
THEOREM LinksLeadHome == Spec => []LinksFound
<1>1. PagesInv => LinksFound
  BY DEF PagesInv, ShownInv, Good, Up, LinksFound, IsDocument
<1> QED BY <1>1, PagesInvariant, PTL
=============================================================================
