------------------------------ MODULE WebPages ------------------------------
(***************************************************************************)
(* How the pages reach a browser: the Netlify function of the deployed     *)
(* frontend (apps/frontend/.netlify), which is SvelteKit's server over the *)
(* routes of this app, and a browser that follows redirects and asks again *)
(* with the ETag it has kept.                                              *)
(*                                                                         *)
(* The app renders nothing on the server (+layout.js: ssr = false), loads  *)
(* nothing there, and has no endpoints, form actions, remote functions,    *)
(* hooks, cookies or prerendered pages: the branches of the server for     *)
(* those are decided here as this app's manifest decides them.  A document *)
(* is known by the styles its head links and by the script that starts the *)
(* app, all of one build and reached by the way up from the document's     *)
(* address to the root of the site.  Its ETag is a 32-bit hash of it, taken *)
(* here to differ wherever documents do.  An accept header is the sequence *)
(* of what it names, in its order of preference; PUT stands for PATCH and  *)
(* DELETE too, and x.html for every name that ends so.                     *)
(***************************************************************************)
EXTENDS Naturals, Sequences, SequencesExt

CONSTANTS
  Paths,         \* the addresses asked for
  MaxBuilds,     \* deployments
  MaxProcesses,  \* processes of the function
  Nothing

\* An address: its segments, and whether a slash follows the last one.
Addresses == {p \in [segs : Seq(STRING), slash : BOOLEAN] : p.segs = << >> => p.slash}
Home == [segs |-> << >>, slash |-> TRUE]

ASSUME PathsAssumption == Paths \subseteq Addresses
ASSUME BoundsAssumption == MaxBuilds \in Nat \ {0} /\ MaxProcesses \in Nat \ {0}
ASSUME NothingAssumption == Nothing \notin [env : Nat]  \* no header, no tag

\* PUT, PATCH and DELETE are answered alike.
Methods == {"GET", "HEAD", "POST", "PUT", "OPTIONS"}

VARIABLES
  build,    \* the deployed build
  process,  \* the process that answers: its number, build, and how far it has come
  request,  \* the request under way, or Nothing
  reply,    \* the last answer, the request it answers, and the process that gave it
  cache,    \* the document the browser has kept, of one address at a time
  shown,    \* the document in the tab, and its address
  hops      \* redirects followed since the tab was sent somewhere

vars == <<build, process, request, reply, cache, shown, hops>>

Answer(status, kind) ==
  [status |-> status, kind |-> kind, doc |-> Nothing, tag |-> Nothing, link |-> Nothing, to |-> Nothing, allow |-> {}]

-----------------------------------------------------------------------------
(* Addresses.                                                              *)

EndsWith(p, suffix) == p.segs # << >> /\ Last(p.segs) = suffix /\ ~p.slash
has_data_suffix(p) == EndsWith(p, "__data.json") \/ EndsWith(p, "x.html__data.json")
has_resolution_suffix(p) == EndsWith(p, "__route.js")
add_data_suffix(p) ==
  [segs |-> IF EndsWith(p, "x.html") THEN Append(Front(p.segs), "x.html__data.json")
            ELSE Append(p.segs, "__data.json"),
   slash |-> FALSE]

Stripped(p, slash) ==
  IF Len(p.segs) = 1 THEN Home ELSE [segs |-> Front(p.segs), slash |-> slash]

strip_data_suffix(p, slash) ==
  IF EndsWith(p, "x.html__data.json") THEN [segs |-> Append(Front(p.segs), "x.html"), slash |-> slash]
  ELSE Stripped(p, slash)

is_remote(p) == Len(p.segs) >= 3 /\ SubSeq(p.segs, 1, 2) = <<"_app", "remote">>

\* What a browser, the app's own fetch and a tool ask for, or nothing.
Accepts == {<<"html", "any">>, <<"json">>, <<"any">>, << >>}

\* A request: `other' stands for a foreign origin and for none, its body is
\* a form or not, `slashed' the parameter that gives the address of a data
\* request its slash back.
Requests ==
  {q \in [method : Methods, path : Paths, origin : {"same", "other"}, form : BOOLEAN,
          accept : Accepts, match : {Nothing}, slashed : BOOLEAN] :
     /\ q.method = "GET" => q.origin = "same"
     /\ q.method \notin {"POST", "PUT"} => ~q.form /\ (q.origin = "same" \/ is_remote(q.path))
     /\ q.slashed => Len(q.path.segs) > 1 /\ EndsWith(q.path, "__data.json")}

\* negotiate: the first of types that stands first in the header.
negotiate(accept, types) ==
  LET rank(t) == SelectInSeq(accept, LAMBDA a : a \in {t, "any"})
      taken == SelectSeq(types, LAMBDA t : rank(t) # 0 /\ \A u \in ToSet(types) : rank(u) \in {0} \cup (rank(t) .. Len(accept))) IN
  IF taken = << >> THEN Nothing ELSE Head(taken)

\* A request without the header is asked for as the caller says.
Negotiated(q, default) ==
  negotiate(IF q.accept = << >> THEN default ELSE q.accept, <<"json", "html">>)

is_action_json_request(q) == q.method = "POST" /\ Negotiated(q, <<"any">>) = "json"

\* The address the server goes by.
Pathname(q) ==
  IF has_resolution_suffix(q.path) THEN Stripped(q.path, FALSE)
  ELSE IF has_data_suffix(q.path) THEN strip_data_suffix(q.path, q.slashed)
  ELSE IF is_remote(q.path) THEN Home
  ELSE q.path

\* decode_pathname throws for a malformed escape.
Decodes(p) == \A i \in DOMAIN p.segs : p.segs[i] # "%E0"

\* The manifest's routes.
routes ==
  {[id |-> "/", pattern |-> << >>, layouts |-> <<0>>, leaf |-> 2],
   [id |-> "/listen", pattern |-> <<"listen">>, layouts |-> <<0>>, leaf |-> 3],
   [id |-> "/p/[player_id]", pattern |-> <<"p", "*">>, layouts |-> <<0>>, leaf |-> 4]}

\* A pattern matches with or without a slash at the end.
find_route(p) ==
  LET found == {r \in routes : /\ Len(r.pattern) = Len(p.segs)
                               /\ \A i \in DOMAIN p.segs : r.pattern[i] \in {"*", p.segs[i]}} IN
  IF found = {} THEN Nothing ELSE CHOOSE r \in found : TRUE

load_page_nodes(page) == Append(page.layouts, page.leaf)

\* The page options a node exports: only the layout has any.
universal(node) == IF node = 0 THEN [ssr |-> FALSE, prerender |-> FALSE] ELSE << >>

\* The last node that has the option decides.
get_option(nodes, option, default) ==
  LET having == {i \in DOMAIN nodes : option \in DOMAIN universal(nodes[i])} IN
  IF having = {} THEN default ELSE universal(nodes[Max(having)])[option]

ssr(nodes) == get_option(nodes, "ssr", TRUE)
csr(nodes) == get_option(nodes, "csr", TRUE)

\* Why nothing here renders a page or fetches its data.
ASSUME NothingRendered == \A r \in routes : ~ssr(load_page_nodes(r))

\* What the server makes of a request, until a route is found for it.
Event(q) ==
  [request |-> q, url |-> Pathname(q), route |-> Nothing,
   isDataRequest |-> has_data_suffix(q.path), isRemoteRequest |-> is_remote(q.path)]

\* Faulty variant: the slash is taken for the address's own.
normalize_path_keeps(p, trailing_slash) == p

normalize_path(p, trailing_slash) ==
  IF p = Home \/ trailing_slash = "always" THEN [p EXCEPT !.slash = TRUE]
  ELSE [p EXCEPT !.slash = FALSE]

trailing_slash(p, nodes) == IF p = Home THEN "always" ELSE get_option(nodes, "trailingSlash", "never")

-----------------------------------------------------------------------------
(* Answers.                                                                *)

\* Faulty variant: the suffix of a data request is forgotten.
WayUpOfPage(p, data) == Len(p.segs) + (IF p.slash THEN 1 ELSE 0) - 1

\* base$1: a ".." for each segment of the address asked for but the last.
WayUp(p, data) ==
  LET path == IF data THEN add_data_suffix(p) ELSE p IN
  Len(path.segs) + (IF path.slash THEN 1 ELSE 0) - 1

\* What the link header names ahead: the styles of the page's nodes and the
\* modules the app starts with.  Their names hold the build's hashes.
Links(nodes, up) == [of |-> process.build, nodes |-> nodes, modules |-> TRUE, at |-> up]

\* Head.build: of these the head itself links the styles; modules are added to
\* it in prerendered pages only.
Styles(links) == [links EXCEPT !.modules = FALSE]

\* The script at the end, unless the page is to do without: it imports the
\* build's start and app modules.
Boot(config, up) == IF csr(config) THEN [app |-> process.build, at |-> up] ELSE Nothing

\* Faulty variant: the hash leaves out the names of the modules.
HashOfShell(doc) == [doc EXCEPT !.head.of = 0, !.boot.app = 0]

Hash(doc) == doc

\* The text is complete before it is sent, so it has a tag.
Sent(doc, link, status) ==
  [Answer(status, "document") EXCEPT !.doc = doc, !.link = link, !.tag = Hash(doc)]

\* With ssr off nothing of the page itself is rendered.
render_response(event, status, nodes, config) ==
  LET up == WayUp(event.url, event.isDataRequest)  links == Links(nodes, up) IN
  Sent([head |-> Styles(links), boot |-> Boot(config, up)], links, status)

\* The default layout renders nothing on the server: an empty document, whose
\* script finds out in the browser.
respond_with_error(event, status) == render_response(event, status, << >>, <<0>>)

\* A page that links nothing.
static_error_page(status) == Answer(status, "static_error")

handle_fatal_error(event, status) ==
  IF event.isDataRequest \/ Negotiated(event.request, <<"html">>) = "json"
    THEN Answer(status, "json") ELSE static_error_page(status)

\* No node has form actions.
handle_action(event) == [Answer(405, "json") EXCEPT !.allow = {"GET"}]

\* A form that is sent gets the page it is sent to, with the refusal's status.
render_page(event) ==
  LET nodes == load_page_nodes(event.route) IN
  IF is_action_json_request(event.request) THEN handle_action(event)
  ELSE IF event.request.method # "POST" THEN render_response(event, 200, nodes, nodes)
  ELSE [render_response(event, 405, nodes, nodes) EXCEPT !.allow = {"GET"}]

\* No node loads anything on the server: each one's data is null.
render_data(event) ==
  [Answer(200, "json") EXCEPT !.doc = [n \in ToSet(load_page_nodes(event.route)) |-> Nothing]]

\* The manifest has no remote functions.
handle_remote_call(event) == handle_fatal_error(event, 404)

\* The manifest has no routes for the browser to ask for.
resolve_route(event) == Answer(400, "text")

AllowedOnPages == {"GET", "HEAD", "OPTIONS"}

resolve2(event) ==
  LET method == event.request.method IN
  IF ~Decodes(event.url) THEN respond_with_error(event, 400)
  ELSE IF event.isRemoteRequest THEN handle_remote_call(event)
  ELSE IF event.route = Nothing THEN respond_with_error(event, 404)
  ELSE IF event.isDataRequest THEN render_data(event)
  ELSE IF method \in {"GET", "HEAD", "POST"} THEN render_page(event)
  ELSE [Answer(IF method = "OPTIONS" THEN 204 ELSE 405, "text") EXCEPT !.allow = AllowedOnPages]

\* Only a document that would be sent with 200 is compared with the browser's.
handle(event) ==
  LET r == resolve2(event) IN
  IF r.status = 200 /\ r.tag # Nothing /\ event.request.match = r.tag
    THEN [Answer(304, "empty") EXCEPT !.tag = r.tag]
  ELSE r

\* get_public_env: the first request of a process dates the tag.
get_public_env(q) ==
  LET tag == [env |-> process.number] IN
  [Answer(IF q.match = tag THEN 304 ELSE 200, IF q.match = tag THEN "empty" ELSE "env") EXCEPT !.doc = tag, !.tag = tag]

\* A content type a form can have without leave of this site.
is_form_content_type(q) == q.form

\* This site's own pages only may send it forms, or call remote functions but
\* by GET.
Forbidden(q) ==
  /\ q.origin # "same"
  /\ IF is_remote(q.path) THEN q.method # "GET"
     ELSE q.method \in {"POST", "PUT"} /\ is_form_content_type(q)

Refusal(q) == Answer(403, IF q.accept = <<"json">> \/ is_remote(q.path) THEN "json" ELSE "text")

internal_respond(q) ==
  LET event == Event(q)
      path == event.url
      remote == event.isRemoteRequest
      route == find_route(path)
      normal == normalize_path(path, trailing_slash(path, load_page_nodes(route))) IN
  IF Forbidden(q) THEN Refusal(q)
  ELSE IF ~Decodes(path) THEN handle(event)
  ELSE IF has_resolution_suffix(q.path) THEN resolve_route(event)
  ELSE IF path \in {[segs |-> <<"_app", f>>, slash |-> FALSE] : f \in {"env.js", "env.script.js"}}
    THEN get_public_env(q)
  ELSE IF ~remote /\ path # Home /\ path.segs[1] = "_app" THEN Answer(404, "text")
  ELSE IF route # Nothing /\ ~remote /\ ~event.isDataRequest /\ normal # path
    THEN [Answer(308, "empty") EXCEPT !.to = normal]
  ELSE handle([event EXCEPT !.route = route])

-----------------------------------------------------------------------------
(* The function's processes.                                               *)

\* The function's init: a server is made and its own init begun, once.
Started(n, b) == [number |-> n, build |-> b, is |-> "starting"]

Init ==
  /\ build = 1
  /\ process = Started(1, 1)
  /\ request = Nothing
  /\ reply = Nothing
  /\ cache = Nothing
  /\ shown = Nothing
  /\ hops = 0

\* server.init has fetched the hooks, or thrown: then it is never tried again.
Starts ==
  /\ process.is = "starting"
  /\ \E is \in {"ready", "failed"} : process' = [process EXCEPT !.is = is]
  /\ UNCHANGED <<build, request, reply, cache, shown, hops>>

\* The platform starts another process, of the build deployed by then.
Replaced ==
  /\ process.number < MaxProcesses
  /\ process' = Started(process.number + 1, build)
  /\ UNCHANGED <<build, request, reply, cache, shown, hops>>

\* A deployment takes the place of the one before at once.
Deploy ==
  /\ build < MaxBuilds
  /\ process.number < MaxProcesses
  /\ build' = build + 1
  /\ process' = Started(process.number + 1, build')
  /\ UNCHANGED <<request, reply, cache, shown, hops>>

\* A request awaits the init; one that was rejected rejects every request.
Awaited(q) == IF process.is = "ready" THEN internal_respond(q) ELSE Answer(500, "platform_error")

Respond ==
  /\ request # Nothing
  /\ process.is # "starting"
  /\ reply' = [to |-> request, by |-> process, is |-> Awaited(request)]
  /\ request' = Nothing
  /\ UNCHANGED <<build, process, cache, shown, hops>>

-----------------------------------------------------------------------------
(* The browser.                                                            *)

Kept(p) == IF cache # Nothing /\ cache.path = p THEN cache.is.tag ELSE Nothing

\* Nothing is asked before the last answer has been taken.
Idle == request = Nothing /\ reply = Nothing

\* The tab is sent to an address, by a link, a reload, or a form.
Visit(q) ==
  /\ Idle
  /\ request' = [q EXCEPT !.match = IF q.method \in {"GET", "HEAD"} THEN Kept(q.path) ELSE Nothing]
  /\ hops' = 0
  /\ UNCHANGED <<build, process, reply, cache, shown>>

\* A redirect is followed with the same method.
Follow ==
  /\ reply # Nothing
  /\ reply.is.status = 308
  /\ request' = [reply.to EXCEPT !.path = reply.is.to, !.match = Kept(reply.is.to)]
  /\ reply' = Nothing
  /\ hops' = hops + 1
  /\ UNCHANGED <<build, process, cache, shown>>

\* The document sent, or the one kept, is shown; a 200 with a tag is kept.
Take ==
  LET a == reply.is  p == reply.to.path
      got == [doc |-> a.doc, tag |-> a.tag, by |-> reply.by] IN
  /\ reply # Nothing
  /\ a.status # 308
  /\ cache' = IF a.status = 200 /\ a.tag # Nothing /\ reply.to.method = "GET"
                THEN [path |-> p, is |-> got] ELSE cache
  /\ shown' = IF reply.to.method = "HEAD" THEN shown
              ELSE IF a.status = 304 THEN [cache EXCEPT !.is.by = reply.by]
              ELSE IF a.kind \in {"document", "env"} THEN [path |-> p, is |-> got]
              ELSE Nothing
  /\ reply' = Nothing
  /\ UNCHANGED <<build, process, request, hops>>

Next ==
  \/ Starts \/ Replaced \/ Deploy \/ Respond
  \/ \E q \in Requests : Visit(q)
  \/ Follow \/ Take

Spec == Init /\ [][Next]_vars

-----------------------------------------------------------------------------
(* Properties.                                                             *)

\* Every page has one address: whichever way it is asked for, one redirect at
\* the most leads there, and no document of a page is made for another.
OneAddress ==
  /\ hops <= 1
  /\ reply # Nothing /\ reply.is.status = 200 /\ reply.is.kind = "document" =>
       LET p == reply.to.path IN p = Home \/ ~p.slash

IsDocument(page) == page # Nothing /\ "boot" \in DOMAIN page.is.doc

\* What a tab shows is of the build that answered it, also if the answer was
\* that the browser's own copy will do: a deployment is never hidden by it.
ShownIsDeployed ==
  IsDocument(shown) => {shown.is.doc.boot.app, shown.is.doc.head.of} = {shown.is.by.build}

\* The addresses the server can tell again from those it goes by.  The suffix of
\* a route request is taken away and not thought of again; that of data is put
\* back, but with no slash behind a name that ends in .html.
FoundFrom(p) ==
  /\ ~has_resolution_suffix(p)
  /\ ~(EndsWith(p, "__data.json") /\ Len(p.segs) > 1 /\ p.segs[Len(p.segs) - 1] = "x.html")

\* The links of a document start at the root of the site from wherever it is
\* shown, error pages and answers to data requests among them -- but for the
\* error pages of a route request and of the data asked for behind a .html and
\* a slash without the mark that the app puts there to give the slash back.
LinksFound ==
  IsDocument(shown) /\ FoundFrom(shown.path) =>
    {shown.is.doc.head.at, shown.is.doc.boot.at} =
      {Len(shown.path.segs) - (IF shown.path.slash THEN 0 ELSE 1)}
=============================================================================
