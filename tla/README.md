# dsh-nebula: a TLA+ verification project

dsh-nebula is a plugin for the DeepSeek Harness (DSH). It gives a language
model tools to work with a NebulaGraph v5 server (`graphd`) over gRPC, draws
graph results in the harness's web client, and adds a settings page for named
connection presets. This directory holds TLA+ models of the parts of the plugin
that keep state across an `await`, a callback, a batch or an HTTP request; TLC
configurations that check them on small instances; and TLAPS proofs of what
matters most for every value of the constants.

Paths below are relative to the repository root (`src/...` is the host half,
`client/...` the browser half); `PROJECT.json` gives the exact lines of every
definition, and writes the same files with the prefix `src/`.

## 1. Inventory

| Component | State it keeps | Operations | Interacts with |
| --- | --- | --- | --- |
| Connection life cycle: `src/tools.ts` (nebula_connect, nebula_disconnect), `src/nebula-client.ts`, `src/registry.ts`, `src/index.ts` | per client: channel, session id, `closed`, options with the password; the registry's map of entries | connect (limit check, password, TLS attempt, fallback), disconnect, abort, unload | the host (tool calls, abort signals, the dispose effect), graphd (authenticate, SESSION CLOSE) |
| Statements on a connection: `src/tools.ts` (nebula_execute, nebula_schema), `src/schema.ts`, `src/registry.ts` | per entry: `currentGraph`, `schemaCache` (graph types, element keys, in-flight DESCs) | execute, warm the key cache, schema, catalog reading | overlapping calls of one entry, the session at graphd |
| Graph projection: `src/graphData.ts`, `capRenderData` in `client/index.tsx` | nodes, placeholders, edges, `truncated` | addNode, addEdge, ensureEndpoint, render cap | decoded rows in, tool metadata and the card out |
| Result decoder: `src/decode/*` | the column schema, which batches and path elements write to while it is used; per batch the value of a const vector | parse a type, decode a batch, a node, a path, a value of each type | `NebulaClient.execute` |
| Instance settings: `client/NebulaInstancesSection.tsx`, `client/instances-api.ts`, `client/nebula-instances.ts`, `src/instances-api.ts`, `src/instances.ts` | the stored section and its revision (at the settings provider), per page: view, editor with its draft, requests under way | load, edit, type, validate, save, remove, set default, add/remove credential reference; per request: the trust fence, the checks of the handler | several pages, HTTP, the settings provider's revision check, document-updated events |
| Connection argument resolution: `src/tools.ts`, `src/instances.ts`, `src/index.ts` | none (reads plugin config and settings) | resolveConnectArgs, resolveTlsOptions, resolveInstanceSource | nebula_connect |
| Credential values panel: `client/NebulaInstancesSection.tsx`, `client/index.tsx` | configured and writable flags, drafts, busy flags | describe, set, unset, add and remove a reference | the harness's credentials remote |
| Schema graph: `src/schema.ts` (parseGraphTypeDesc, buildSchemaGraphMeta), schema card | node and edge types read so far | read a row, build the meta-graph, label, colour, tooltip | nebula_schema, the card |
| Conversation node and graph view: `client/index.tsx` | per turn: the latest graph and where it stands; per card: the G6 instance, full screen; per element the record G6 keeps | match, start, update, render, the mount effect, toggleFullscreen, toG6Data, tooltips | the conversation engine, React, the browser, G6 |
| Output formatting: `src/format.ts` | none | tables and footers | tools |
| Skill provider: `src/skill.ts` | none | list and load the bundled skill | host |
| Generated protocol text: `src/generated-protos.ts` | none | | gRPC |

### Where the code is hard

* **Interleaving at awaits.** Tool calls of one session run concurrently and
  share the registry and an entry. nebula_connect checks its limit two awaits
  before it registers; unload takes its list of connections while connects are
  in flight; two executes share one DESC through `inflight`; nebula_schema
  reads the tracked graph before it awaits the catalog.
* **Failure and time.** Every gRPC call has a deadline, and a call that gave up
  may still be carried out by the server. Deadline, abort and a failed TLS
  handshake are one kind of error.
* **Two grammars.** The settings form, the plugin's cross-field checks and the
  provider's schema each say what an instance is; the page cannot see the last two,
  nor the fence in front of them.
* **Ordering.** Loads, updates and change events of the settings page are
  separate requests whose answers overtake each other; a lost answer leaves a
  write made and not seen.
* **Rendering.** React renders and runs effects after the fact, and the browser
  answers a request for full screen later or refuses it, while results arrive.
* **Shared mutable data.** The decoder stamps vector positions into the one
  column schema that all batches, rows and path elements use.
* **Bytes.** Integers beyond what a JSON number holds, floats JSON has no text for, a zone offset sent as an
  unsigned count, signed durations, offsets into shared chunks, null bits.
* **Names.** A property may have the name of a field of the record it is copied
  into; names of a catalog arrive in four forms of cell.
* **Limits.** Two caps in the projection, two more in the browser, a limit of
  connections.

`PROJECT.json` lists each hazard at its line with the properties that would
catch it.

### What makes each component correct

* Connections: every open channel and live session has an owner who will
  release it; the registry holds usable entries, bounded in number; plaintext
  is used only after a failed TLS attempt in auto mode; unload ends.
* Statements: each graph type is described once at a time and failures do not
  block it; graph results are presented with their keys; the tracked graph is
  the session's wherever the answers can tell; every call ends.
* Projection: caps hold, losses are reported, no drawn edge lacks its nodes.
* Cards: a card draws the last graph of its turn, once, leaves the page to the
  user when the screen is not filled, and shows each element as it is.
* Schema graph: the card of a graph type shows that graph type, whatever order its
  rows come in.
* Decoder: what is decoded is what was encoded, nothing throws, and a reader of
  the JSON gets the server's values back.
* Settings: only sound sections are stored, no write undoes another page's,
  pages catch up with the store.
* Settings form: what the page lets pass the host stores, what is stored opens and
  saves unchanged, and a field nobody typed in keeps what it said.
* Arguments: one call uses one configuration, an enforced TLS policy stands, and
  the reference in force decides the password.
* Credentials panel: flags catch up with the document, typed passwords are kept
  until the document has had them or the panel itself goes.

## 2. Modules

| Module | Models | Style |
| --- | --- | --- |
| `SessionLease` | abstract promise of the registry: handles are leased and returned at most once, never more than a capacity at a time | abstract specification |
| `Connections` | connection life cycle | actions between awaits; implements `SessionLease` |
| `ConnectionsProofs` | theorems about `Connections` | TLAPS |
| `EntrySession` | the calls sharing one entry | actions between awaits, graphd as external actions |
| `EntrySessionProofs` | theorems about `EntrySession` | TLAPS |
| `GraphProjection` | `extractGraphData` and `capRenderData` | one action per cell |
| `GraphCards` | the conversation node and `NebulaGraphView` | actions per event, render, effect, click and browser answer |
| `SchemaGraph` | `parseGraphTypeDesc`, `buildSchemaGraphMeta` and what a schema card shows | one action per catalog row, the rest operators over it |
| `DrawnData` | `toG6Data`, labels, colours and tooltips of a data graph | one action per element of a payload, the rest operators over it |
| `GraphView` | composition: from rows or a catalog answer to the card | disjoint parts, one followed at a time |
| `GraphViewProofs` | theorems about the projection, the cards, the drawn data, the schema answer and their composition | TLAPS |
| `ResultDecode` | node and path columns over batches | one action per row or path element |
| `Vectors` | what the vectors of every column share: presence bits, nulls | pure functions |
| `BasicValues` | integers, floats, dates, times and durations from their bytes, and the server's bytes of them | pure functions |
| `ColumnRows` | one column over batches: a vector, its rows, the cache of a const vector | actions shared by the next columns |
| `BasicColumn` | columns of fixed-size values, and what a reader makes of their JSON | one action per batch and row |
| `BasicColumnProofs` | theorems about `BasicColumn` | TLAPS |
| `CompositeFormat` | types and values with parts, and how the server writes them, given how it writes parts | pure functions of their parts', external |
| `CompositeDecode` | how the decoder reads types and values with parts, given how it reads parts | pure functions of their parts' |
| `CompositesProofs` | theorems about these two, for any parts | TLAPS |
| `WireFormat` | plain types and values, how the server writes them, and `CompositeFormat` for each level of types | pure functions, external |
| `ValueDecode` | every other column, flat and const | one action per batch and row |
| `Decoder` | composition: a table is its columns, each of nodes and paths, of fixed-size values or of other values | disjoint parts |
| `DecoderProofs` | theorems about `ResultDecode`, `ValueDecode` and `Decoder` | TLAPS |
| `SettingsPage` | pages, requests and the stored section | actions per user step, request and reply |
| `SettingsPageProofs` | theorems about `SettingsPage` | TLAPS |
| `InstanceForm` | the form of the page, its grammar, and the HTTP route with the host's | actions per user step and request; the grammars are operators |
| `CredentialStore` | the credentials document and the environment, both the host's | shared state of the next two |
| `ConnectArguments` | how one nebula_connect call finds its parameters and its password | one action per step between awaits |
| `CredentialsPanel` | the panel's rows, flags, drafts and calls | actions per user step, call, answer and reply |
| `Credentials` | composition: a visit to the settings page, at its panel with a call over one document and one section, or at its form | conjunction of the two, or the form |
| `CredentialsProofs` | theorems about `InstanceForm`, and about `Credentials` and its other parts | TLAPS |
| `MC*` | symmetry sets, initial sections, catalogs and plugin configs for TLC | |

A few operators are variants that no specification uses (`Admit`,
`GiveUpWhenCancelled`, `FetchAlways`, `HostAcceptsAny`, ...). Each stands just
before the definition it varies and is that definition with one plausible bug;
replacing the definition by its variant makes TLC report the property it is
paired with in `PROJECT.json`, which shows that the property can fail.

### Connections

`call[c]` is one nebula_connect call: the await it is at, its effective TLS
mode, what its port speaks, whether its signal fired, whether the options still
hold the password. `client[<<c, a>>]` is one `NebulaClient`: attempt `first` or
`fallback`, its channel, its authenticate request as the server and as the
client see it, and the session. A tool call is uninterrupted between awaits, so
each action is the code from one settled promise to the next await: for
instance `SignedIn` is the answer to authenticate, the clearing of the password,
the return from `connect` and `registry.add` together. `Disconnect` is
`registry.remove` with `close()` up to its await. The server's actions
(`ServerAccepts`, `ServerRefuses`, `ServerEndsSession`) may come after the
caller has given up.

### EntrySession

`call[c]` is one nebula_execute or nebula_schema call on one connection. A query has
graph results; a move is a list of statements, of which `sessionSetGraph` tells apart
whether its pattern reads them (`plain`, `src/schema.ts:328`: SESSION SET GRAPH and a name of
letters, digits and underscores) or not (temporary, hyphenated and qualified names, USE, SESSION
RESET). A semicolon inside a string literal, at which the source splits too, is not among the
inputs. `inflight` is the cache's table of running DESCs, `own` and `waits` say which promises a
call awaits. nebula_execute returns its result (`returned`) before the host calls
`presentationMeta` (`Present`), which looks the entry up again: after a disconnect in between
there are no keys.

`muddled` is history: it says that since the last clear move a move was not read, overlapped
another, lost its answer, or failed half way, cases in which no bookkeeping on this side can be
exact. A clear move ends on a plain statement and is alone under way; it makes the tracking exact
again, whatever came before it. `changed` is history too: the graphs whose catalog entry other
clients changed. `PresentedWithKeys` is said of all others.

### GraphProjection

`AddNode` and `AddEdge` are the two functions of the same name; a path is a run
of them. `nodeCells` and `edgeCells` record what was scanned. The client's cap is
an operator over the projection, as `capRenderData` is a function of it. Labels,
properties and element keys do not influence what is kept and are left out.

### GraphCards

A graph is named by the number of the event that brought it. `context` is what
`nebulaGraphDefinition` keeps per turn, `view` is the card if it is mounted:
`shown` is what was rendered last, `drawn` what the `[graph]` effect last ran for,
so the two differ while an effect is due. `live` are the G6 instances that were
not destroyed. React flushes effects before it renders a component again
(external assumption `Flushed`); a card may be taken off the page and put back at
any time. `screen` is the browser's stack of full-screen elements; granting,
refusing, leaving and Escape are its actions, and `fullscreenchange` arrives after
any of them. Fitting, relayout and lite mode are left out.

### DrawnData, SchemaGraph, GraphView

What a card shows is a function of its payload, so these modules have few actions:
`PayloadNode` and `PayloadEdge` grow a payload, `ReadDescRow` an answer about a
graph type, and since either may end anywhere, an invariant over all states is a
statement about all payloads and all answers. `DrawnData` keeps the order in which
`toG6Data` writes an element's own fields and its properties into one record, for
label, colour and tooltip are read back from that record. `SchemaGraph` has the four
forms in which a catalog cell arrives. Strings are the sequences of pieces they were
put together from; HTML and the cutting of long values are left out. `GraphView`
puts projection, cards and these two side by side: they share no state, and a
payload never changes once it is made.

### ResultDecode, BasicColumn, ValueDecode, Decoder and their parts

`ResultDecode` follows a node or path column: the server's encoding is an external
choice (`ReadBatch`): rows, for each type the order in which its vector lists
properties, the order in which a path's special meta data lists types. A cell is
named by the occurrence and the property it was encoded from, so `DecodedFaithfully`
can compare.

`ColumnRows` is the loop of `decodeResultTable` over any other column: a batch brings one
flat or const vector (`ReadRows`), its rows are decoded one by one (`DecodeFlat`,
`DecodeConst`, which keeps the first value), and the next batch gets a cache of its own
(`EndRows`). How a vector is written and a cell is read are parameters of those actions.

`BasicColumn` gives them the values of fixed size. `BasicValues` reads bytes as the source
does (`DecodeBasicValue`); the number of values of a byte, the calendar and 2^53 are
constants, so that TLC can go to both ends of every integer and over the end of a day, a
month and a year with small numbers, and the proofs can speak of the real ones. Text of a
literal is the sequence of its fields, except for zones and durations, whose text is kept
as what it says. `EncodeBasic` is the server's side, `ReadsBack` what a reader makes of
the JSON. A float is written as the bits of IEEE 754 and read as sign, exponent and mantissa
(`ReadFloat`); the greatest exponent makes it NaN or an infinity (`FloatToNumber`), and
`FloatJson` is what `JSON.stringify` leaves of it. `Misread` names the values that the code does
get wrong: those findings and hazards are stated, and everything else has to come back. The
numbers inside embeddings and shapes, and the floats nested in other values, stand for finite ones.

`ValueDecode` gives them strings and nested values. A type is parsed from the stream the
server writes (`NewTypeSchema`), a batch is one vector (`Flat`, `Stream` in `WireFormat`),
and each row is decoded by the functions that have the source's names
(`DecodeFlatValue`, `DecodeStream` for decodeAnyCompositeValue, ...). One item of a
stream is one `readN` of the decoder, so widths of counts and the bits of a null
bitmap are not spelt out, but offsets into chunks, spans of nested vectors and the
order of reads are.

The source recurses over types (`newTypeSchema`, `decodeFlatValue`,
`decodeAnyCompositeValue`). A recursive call is always for a part of the value at hand, so
`CompositeFormat` and `CompositeDecode` are written over what is done with a part, as
parameters, and `WireFormat` and `ValueDecode` instantiate them twice: `Inner` and
`InnerDecode` over plain values, `Outer` and `OuterDecode` over those. Types so nest at
most twice (a list of lists of strings, a map of nodes); a third level would be a
third instance.

### SettingsPage

`log` is every section stored so far; its length is the revision. A page has
what it shows, an editor, and loads under way; updates are `requests` until the
host handles them and `replies` until the page hears of it, each may be lost.
External assumption: the settings provider checks the revision and commits in
one turn, as the provider in `tests/instances-api.test.ts` does.

### InstanceForm

`SettingsPage` is about which section is stored, `InstanceForm` about what a user can
do to one instance of it. `page` is the page's state: what it last read of the place
(`view`), the editor, and the draft, a text per field. `DraftFrom` is `draftFrom`,
`ValidDraft` and `InstanceOf` are the two halves of `validateDraft`. `SaveDraft` is
`saveDraft` with `commitSection`, the request and its answer in one step, for what
happens between them is `SettingsPage`'s. A request is what the handler tells apart:
where it was sent, its origin, the method, what is wrong with its body, the instance.
`Reply` follows the handler's early returns in their order, `Trusted` is the fence
(`isTrustedApiRequest`), `Validated` and `Schema` are the two checks of the host.
`Elsewhere` is anybody else who reaches the route, with any such request.

Texts and numbers are constants, and so is what `trim`, `Number` and `String` do to
them (`Trim`, `Number`, `Printed`): the model assumes that a number is printed as a
text that reads as the same number, that trimming twice is trimming once, and that an
alias has no blanks around it. The form has twelve fields; `user` goes with `note` and
`servername`, and `cert` with `ca` and `key`, which are stored as typed. One place of
the section is followed, with or without an instance: other instances matter to a draft
only by a colliding alias, which `AliasExists` has for the followed one. That the
provider refuses an unwritable document before it looks at the revision is external;
its schema accepts fractions, which the page does not.

### ConnectArguments, CredentialsPanel, Credentials

`Resolve` is `resolveConnectArgs` over the settings as they are when the call
comes; `PasswordFound` is the settled password lookup with `resolveTlsOptions`,
which runs after it and reads the profile the call began with. The document is a
log of its versions, so that a lookup or a describe under way may be answered
with any version between its call and its answer. `host` and `cert` each stand
for a group of fields with the same precedence (`ca` and `timeoutMs` go the way
of `host`, `key` and `servername` that of `cert`). What is not a valid reference
(`assertCredentialRef`) is not among the inputs; a reference of blanks is.

The panel's actions are the user's (type, save, clear, remove), the host's
(`HostWrites`, which also tells every page) and the replies. When a reload of the section fails the
page returns early with an error and no panel (`client/NebulaInstancesSection.tsx:513`): `Unmount`
takes flags, drafts and questions with it, while calls it had posted run on and answer nobody
(`here`), a removal excepted, which still writes the section. The next reload that succeeds mounts a
new panel (`Mount`). `shown` keeps as
history whether an older answer came last, in which case no flag can be right.
`permits` says what the deployment lets the page write, the settings and which
references; a row that is not described yet is taken for writable, as in the code.
`Credentials` adds what connects the two: rows come from the settings, a reference
may be added to them, and a removal that cleared its value goes on to write the
settings or fails to. Remove is offered also when the settings cannot be written
(`client/NebulaInstancesSection.tsx:249`): the value is then gone and the row stays.

A visit to the page is to the panel or to the form (`visit`). The two share the
section only: what a form writes is to the panel and to a call one more settings write
(`SettingsWritten`), and nothing the panel or a call does changes an instance. So the
halves are followed one at a time, each with the other at rest, and the run is their
sum instead of their product.

## 3. Runs

| Run | Expect | Shows |
| --- | --- | --- |
| `connections_safety` | pass | three connects, limit 1, two at a time: types, overshoot bound, sound entries, justified fallback, channels and sessions accounted for, aborts honoured, refinement of `SessionLease` |
| `connections_liveness` | pass | connects, closes and the unload end |
| `connections_cap` | violation | two connects pass the limit together |
| `connections_unload` | violation | a connect in flight at unload leaves an open session |
| `connections_fallback` | violation | a deadline or abort makes auto speak plaintext to a TLS server |
| `session_calls` | pass | two overlapping calls, one graph's catalog entry changing at will: single fetch, keys present, tracked graph exact after every clear move, schema of the session's graph, both calls end |
| `graph_view` | pass | projection: reported losses, exact placeholders, no dangling edge drawn; cards: the turn's last graph in one G6 instance, none stranded over the page; each element and each graph type shown as it is |
| `settings_edits` | pass | sound sections, one edit at a time, pages catch up |
| `settings_seed` | violation | a draft replaces an instance it was not seeded from |
| `credentials` | pass | one configuration per call, enforced TLS policy, password of the reference in force, flags that catch up, typed passwords kept while their panel is there; at the form: what the page lets pass is stored, reads back, and keeps the fields nobody typed in |
| `decode_columns` | pass | decoding is faithful and never throws, and literals read back |
| `decode_durations` | violation | a negative duration with a fraction of a second has a sign inside its fraction |

### Bounds and why they are enough

* Connections: three calls are what it takes to exceed the overshoot bound by a
  dropped check while two run in parallel; each call has its own clients, so
  more calls add only more of the same pairs. No counter is bounded. The
  liveness run has two calls. The proofs cover any number.
* EntrySession: a shared DESC, overlapping moves and a stale listing each need two
  calls; two graphs and two types distinguish the same from another. What more
  calls could add is covered by the proofs, which hold for any number.
  `MaxChanged` = 1 graph may change its catalog entry, any number of times, before, between
  or after any steps, and the other must not suffer. `MaxSegments` = 2 statements in a move
  suffice for one that is read before or after one that is not. `FirstCatalogs` has one graph,
  two of one type and two of two; of catalogs that differ in names only one is looked at.
* GraphProjection: four ids over caps of three nodes and two drawn ones reach
  both caps in every order; `MaxCells` bounds the edge cells (one above the
  cap). Node cells need no bound, they repeat.
* GraphCards: two turns, six events: each turn can start, return two graphs and
  something else around them, in every interleaving with two cards that want the
  screen. Renders, mounts, clicks and browser answers are not bounded.
* DrawnData, SchemaGraph: three elements, of which two may have one type and three
  three, over a palette of two; keys whole, composite, partly missing and empty;
  properties that are null, numbers, lists or have the name of a field. Four catalog
  rows: two node types, two edge types, in any order, with ends that are described,
  not described, shared or without a name. `TooltipMax` = 2 of three properties.
* ResultDecode: the number of batches is not bounded. `MaxRows` = 2 and
  `MaxHops` = 1 bound one batch; two node types with the same and with different
  property orders suffice to read a stale stamp.
* BasicColumn, ValueDecode: bytes have four values, so that 64-bit integers end at 2^15 and the
  safe ones at 1000; the calendar has two of each unit and a microsecond is a quarter
  of a second; durations go from -36 to 36 microseconds, several days of either sign. Floats have eight
  or 32 exponents and 16 or 1024 mantissas, and among them both zeros, the smallest and the greatest
  finite number, the infinities and NaN.
  Rows, lists and maps have up to two values, which suffices for an offset that is
  not zero and a null on either side; strings are shorter and longer than what fits
  their cell. The columns are all basic types and one of each way to nest; a second level
  of types is where the reader's position after a nested value begins to matter, and a
  third adds nothing that `CompositesProofs` does not show of any parts.
* SettingsPage: two pages, two aliases; `MaxWrites` bounds the stored
  sections (after that users stop editing, and what is under way finishes),
  `MaxRequests` the updates a page has under way.
* Credentials: `MaxWrites` = 2 writes of the document suffice to replace a value
  under a lookup and to overtake an answer; `MaxEdits` = 1 edit of the settings
  falls anywhere in a call. The panel may go and come back any number of times. The two plugin configs and two sections make every
  level of the precedence present and absent, with a default that exists and one
  that does not; `MCAsked` has each argument, alone or with others, and each that
  is refused. `MCPermits` has every write permitted, one reference read-only, and
  read-only settings; `Addable` is the reference that one of the sections lacks.
  One reference has a value in the environment, the other has none.
* InstanceForm: ten texts: empty, blank, two aliases, one of them with blanks around,
  one number in two notations, one that is too large for a port, a
  fraction and zero. An instance with its required fields, with every field, and one
  written by hand that no form would write. `MaxTyped` = 2 fields typed in suffice for a
  new instance (alias and host) and leave six untouched in an edit. `OtherRequests` has
  one good request and that request with each thing wrong with it. `TrustedHosts`
  makes pages on the loopback, on a trusted machine and on one that is neither.

Symmetry is declared for safety runs only, over sets whose elements the
specification never tells apart. Deadlock checking is off where the system may
really stop: after an unload or when every call has ended (Connections,
EntrySession, Credentials), after the users' last edit (SettingsPage), and when a
payload, an answer or a conversation without a graph ends (GraphView).

### Fairness

Liveness assumes only what the code itself schedules: a gRPC call has a deadline
(`callWithTimeout`), so a wait on graphd settles, if only by a failure; the
credentials lookup answers; `Promise.allSettled` resolves. Nothing is assumed of
graphd, the host or the user: `WF` is on the failing branch alone, so the
properties hold with a server that never answers.

### Findings

Each is a violation run, with the quoted line in `PROJECT.json`:

1. `maxConnections` can be exceeded by concurrent connects (`src/tools.ts:425`);
   what does hold is `OvershootBound`.
2. An unload does not close the session of a connect in flight
   (`src/registry.ts:88`).
3. `auto` falls back to plaintext after a deadline or an abort too
   (`src/nebula-client.ts:348`).
4. The revision of a settings write is that of the view when Save is pressed, not
   of the view the draft was seeded from (`client/NebulaInstancesSection.tsx:560`).
5. A negative duration with a fraction of a second is printed with a sign inside the
   fraction (`src/decode/value.ts:267`): minus three microseconds are `PT0.-000003S`.

Five more facts the passing properties spell out as exceptions. The TLS client of
an attempt that fell back is never closed (`Abandoned` in `ChannelsAccounted`),
and a sign-in whose answer was lost leaves a session at the server
(`SessionsAccounted`). The third is an exception of `FlagsCatchUp`: when a describe
fails, `describeCredentials` answers with an empty list
(`client/index.tsx:923-929`), so the panel forgets every flag, although its own
handler of the failure says "keep the last known states"
(`client/NebulaInstancesSection.tsx:296`); that handler is never reached. Fourth, at the node cap
`addNode` (`src/graphData.ts:128`) refuses also to upgrade a placeholder that is
already counted, though the comment at lines 98-101 says it is "later upgraded in
place when the real node cell arrives": `PlaceholdersLackCells` holds below the
cap only. Fifth, `toggleFullscreen` does not look at the browser's answer
(`client/index.tsx:753`): after a refusal the card covers the page although the
screen is not filled (`refused` in `NoStrandedOverlay`), and when a late
`fullscreenchange` meets a new request the screen is filled by a card that thinks
it is not, which `NoStrandedOverlay` does not exclude.

Exceptions of the statements' properties:

* A graph result whose connection was closed between the return of execute and its presentation
  has no keys (`src/tools.ts:495`; `registered` in `PresentedWithKeys`). Keys of a graph that was
  changed by others may be stale or missing, for the cache is never invalidated.
* SESSION SET GRAPH with a name that the pattern at `src/schema.ts:328` does not read moves the
  session and not the tracked graph, and nebula_schema describes the graph tracked before
  (`clear` and `muddled`), although temporary graphs are among those it lists
  (`tests/schema.test.ts:42`).

An exception of `DraftsKept`: what was typed is lost when a reload fails, since the error takes
the panel's place (`client/NebulaInstancesSection.tsx:513`).

An exception of `FormKeeps` (`AsWritten`): an instance whose `tls` is left out is saved
with `tls: auto` by an edit of any other field, since the select has no empty option
(`client/nebula-instances.ts:92`, `124`). "Absent fields fall back to plugin config
defaults" (`src/instances.ts:39-40`), so an enforced or switched-off TLS mode of the
config no longer reaches that instance, although the draft's own comment says "empty
fields = unset" (`client/nebula-instances.ts:68`). Texts with blanks around them, which
only a settings file or another client can store, are trimmed by an edit.

Exceptions of the decoder's properties, each a disjunct or a guard in the module:

* Zones west of Greenwich (`Misread`): `meta.time_zone_offset` is an unsigned count of
  minutes (`src/decode/resultTable.ts:98`), so -60 would be read as 2^32 - 60. Whether
  the server ever sends one is not known here; if it does, every zoned value is wrong.
* NaN and the infinities become null in the JSON, and minus zero becomes zero (`JsonExact` in
  `Misread`): `decodeBasicValue` returns them as numbers (`src/decode/value.ts:178`), while the
  comment at `src/tools.ts:544` says that decoded cells are "JSON-safe by construction".
* `Date.UTC` takes the years 0 to 99 for 1900 to 1999 (`src/decode/value.ts:131`), in
  zoned datetimes only.
* A null property of an element shows the zeros of its cell, since
  `decodeElementWithProps` calls `decodeFlatValue` (`src/decode/value.ts:482`), while
  elements in streams show null.
* Elements nested in a list, map or record of a flat vector read all properties from
  vector 0, for `prepareVector` stamps top-level schemas only
  (`src/decode/resultTable.ts:137`). A path nested so throws, and so does a const
  vector of mixed values; neither is among the inputs.

Exceptions of what a card shows:

* A property named like a field of the record it is copied into (`type`, `label`,
  `labels`, `kind`, `primaryKey`, for edges `rank`, `direction`, `multiedgeKey`)
  replaces the field or is lost (`client/index.tsx:310-335`); a property `type` changes
  its node's colour. A key that names such a field while its node has no property of
  that name is shown by the label as missing and by the tooltip as the field
  (`client/index.tsx:407`).
* With more types than colours the palette is used again, though
  `client/index.tsx:233` says "two different types in one graph never share a color".
* Names with commas in the text of a list are cut (`src/schema.ts:118`), and a key
  whose first property is called Unique or Auto is taken for the marker.
* An edge type with an anonymous end becomes a loop, or has a vertex without a name
  (`src/schema.ts:170-172`).

## 4. Proofs

`ConnectionsProofs`, for any finite set of calls and any positive limits:

* `TypeCorrect`: one lemma for the step, one case per action.
* `OvershootBounded` from `CapInv`: entries plus calls in flight never exceed the
  overshoot, and calls in flight never exceed `MaxParallel`. The bound on the
  registry alone is not inductive: `SignedIn` adds an entry without looking at
  the limit, and is safe only because it takes a call out of flight.
  `SequentialCapHolds` is its corollary for a host that runs one connect at a time.
* `EntriesSound`, `FallbackAlwaysJustified`, `NoChannelLost`, `NoSessionForgotten`
  from `LifeInv`, which ties the phase of a call to the states of its two
  clients. None of the four is inductive alone; for instance an entry stays
  usable only because a registered call's other client has no request that
  could still be answered.
* `AbortsHonoured`: an aborted call's awaited client is cancelled, so `SignedIn`
  is not enabled.
* `RegistryImplementsLease`: every step maps to a step of `SessionLease` or a
  stutter; it uses `CapInv` for the room of `Grant` and `LifeInv` for `Return`.
* Of the liveness properties, what is safety in them. `CallsOnlyMoveForward`: every step
  moves calls and channels forward or leaves them, so with finitely many calls nothing goes on
  for ever. `UnloadNeverStuck`: what an unload awaits is a sign-out that has begun, never a
  client nobody closes. That a sign-out under way ends is then the fairness of deadlines
  and answers, which TLC adds.

`EntrySessionProofs`, for any sets of calls, graphs and graph types, any lists of moving
statements and any catalog changes, each theorem from an invariant of its own:

* `TypeCorrect` from `TypeInv`, which adds that a call moving the session names
  a graph: the new session graph is otherwise not known to be one.
* `FetchedOnce` from `FetchInv`: a type on the in-flight table points to a call
  that is describing it. Starting a DESC checks the table, not the other calls,
  so only this link excludes a second one.
* `TrackingIsExact` from `TrackInv`: nothing overlaps a clear move, and once the server has
  carried it out the session is on its target, which is the graph the pattern reads of it
  (`SetGraphReads`: the last plain statement of a list, found by the least number of
  statements after it). While nothing was muddled at most one call moves the session, and until
  the server acts tracked and real graph are equal.
* `SchemaOfSession` from `SchemaInv`: the graph a schema call found at its start
  is the one it resolves against later, while other calls move on.
* `ResultsHaveKeys` from `KeysInv`, one statement for each graph nobody changed: its cached type
  is the one the server lists, and a call that met no mishap has asked for its keys, awaits them
  or finds them in the cache, up to the moment they are presented.
* `CallsOnlyMoveForward` and `NobodyStarves` are the safety in `CallsSettle`: calls move
  only forward, and a call that awaits a DESC it does not run awaits one that another call
  has under way at that moment. Two calls may so await each other's, which is no deadlock,
  since no DESC waits for an await.

`CredentialsProofs`, first about `InstanceForm`, for any texts, numbers, trusted hosts and requests of others,
and any functions for `trim`, `Number` and `String` with the assumptions above:

* `FormTypesHold`: with the types, that what is stored satisfies the host's grammar,
  whoever wrote it.
* `FormKeepsHolds` from `FormInv`: a page that shows the section was served from an
  authority the fence accepts, and an open draft is the text of its seed in every field
  nobody typed in. The lemmas about the grammars carry it: `ValidDraftsStorable` (what
  the page accepts, both checks of the host accept), `Reopened` (a stored instance of a
  valid draft gives a valid draft of that same instance) and `FieldKept` (a field's text
  reads as the field). `FormInv` is not among the invariants of a run.

`SettingsPageProofs`, for any pages, instances and references and any bounds, from any
sound first section:

* `SettingsTypes`, `StoredSectionsSound` and `OneEditPerWrite` from `SettingsInv`. None
  of the last two is inductive: what the host accepts was prepared earlier, over a section
  that may be old by then. `RequestsPrepared` says of every update under way that its
  section is one edit of the section at the revision it carries, and sound, so that the host's
  revision check makes it one edit of the last section; `Known` says that no page
  and no reply is ahead of the log.
* `QuietPagesCurrent` from `CatchInv`: an undisturbed page that does not show the
  stored section has a load under way that was asked at that very section, so its answer
  cannot bring an older one.

`CredentialsProofs`, then for any aliases, hosts, modes, references, values, plugin configs and
sections, over the composition `Credentials`, from `VisitInv`:

* `ConnectInv` says of a call past its start that every parameter is what the three
  sources gave it in the section it saw (`Resolved`), and that a password found is one that
  the reference led to at a version between the call and now. It gives
  `OneConfigurationHolds`, `PolicyEnforcedHolds` and `PasswordOfReferenceHolds`; the last
  needs that the log only grows, for the lookup's interval moves while the document is
  written.
* `PanelInv` gives `FlagsCatchUpHolds` and `DraftsKeptHolds`. `FlagsInv`: the panel is gone, or a
  describe asked at the current version is under way, or every row has heard of that
  version, so a wrong flag knows that it is wrong. `OpsInv`: a save under way of the panel that is
  open still has its draft in the field, and what was made of it is in the log; no row has two
  calls of that panel. A save of an earlier panel is why a call has to know whose it is.
  `RoomInv` counts the calls that are still to write, since the bound on writes is tested
  when a call starts.
* `VisitFormKeeps` carries `FormKeeps` to the composition: each of its steps is a step
  of the form or leaves the form alone.

`GraphViewProofs`:

* For any ids and caps with the client's node cap below the host's: `ProjectionInv` (no
  repeated node, placeholders are nodes, an edge lacks an end only when the node cap
  is reached, and then `truncated` is set) gives `CapsHold`, `TruncationReported`,
  `PlaceholdersExact` and `DrawnEdgesAnchored`.
* `LastGraphDrawn` and `NoOverlayStranded`, for any turns and any number of events, from
  `CardsInv`. `ContextsInv`: a turn's context stands at the latest of its results.
  `InstancesInv`: a live G6 instance belongs to the last run of its card's effect; that
  a card has one instance rests on this for every state in between, where the effect is
  due and the old instance still draws.
* `PartsFollowed`: every behaviour of the composition is a behaviour of each part, so
  `ViewKeepsParts` collects what the parts promise and `ViewTypes` their types.
* `OverviewOfRows`: parseGraphTypeDesc collects the types of the rows read, all of
  them and nothing else.
* `ElementsShown`, for any payload, from its type: `NodeData` says what the record of an
  element holds after its fields and its properties were written into it, `KeyReadBack`
  that the tooltip finds the key the label was made of, `KeyShownWhole` that the text of
  a key contains that of each value. `TooltipRowsAccount` and `ColoursTellTypes` are the
  conjuncts that depend on a limit: the rows of a tooltip and its count account for each
  property once, however many there are, and colours tell types apart exactly as long as
  there are no more types than colours.
* `GraphTypeShown`, for any answer, from `SchemaInv`, which adds to `OverviewOfRows` that no
  two rows and no two node types have one name. `CellsRead` says that a cell is
  read alike in each of its forms, and `VerticesOfEnds` what the vertices are after the first n
  edge types: the node types, then one placeholder per end that is none of them.
* What a recursive definition computes (`FlattenSeq`, the vertices of `WithEnds`) is proved
  by way of the least number for which it would be wrong (`LeastNumber`), since
  the induction theorems of the library cannot be used.

`BasicColumnProofs`, for any even byte base, calendar, zones, values, columns and sizes of a
batch: `LiteralsAreReadBack`. `RowsInv` says that the rows decoded so far are the
cells of the rows sent (`CellOf`), and that the cache of a const vector is empty or holds
the value of its batch. The property alone is not inductive: nothing in it says of
the cache what the rows to come will be given. What is left is that a cell is read as what was written
(`CellRead`), one lemma for each kind of value:

* Integers, by `BytesUnsigned` and `BytesReadSigned`: the bytes of a number are its digits to
  the base of a byte and add up to it modulo the width, and the half above is the negative numbers.
  `NumberRead` adds what becomes of an integer beyond the safe range: it is written in digits,
  so it is never rounded.
* Floats, by `FloatRead`: sign, exponent and mantissa are quotient and remainder of the bits,
  for any width of the mantissa; what JSON has a text for comes back as it was.
* Dates and times, by the slices their fields are read from (`DateRead`, `TimeRead`).
* Moments, by `MixedRadix`: digits of a mixed radix are found again in their sum, which is
  what packing and unpacking a datetime comes to (`MomentRead`).
* Zoned moments and times, by `ClockDigits`: an instant is the sum of its years, months, days,
  hours, minutes, seconds and milliseconds, so moving it and taking it apart again
  gives the moved clock, with every field in its range (`ZonedMomentRead`, `ZonedTimeRead`).
* Durations, by `MicrosUp` and `MicrosWhole`: quotients and remainders by days, hours, minutes
  and seconds add up to the duration for any microseconds that are not negative and any whole
  seconds that are. Below zero with a fraction they do not, which is the finding above.

Sums along a sequence are shown by the least index at which they would be wrong, as in
`GraphViewProofs`.

`CompositesProofs`, for any parts whatever, given as operators: lists, sets, maps, records,
nodes and edges are read back if their parts are. `TypesParsed`, `ValuesRead` and
`FlatsShown` say so of the three ways to read, and name what they ask of parts:
`TypesAssumed`, `StreamsAssumed`, `FlatsAssumed`. A reader has to end where the writer did, or
the part after it is read from the wrong place, so each of them says of a stream that it is read to its
end, wherever it stands (`Holds`). The recursive functions that follow a reader's
position are shown to have one solution (`Agree`), and the writer's offsets to be it; spans
of nested vectors are sums of the lengths before them (`Upto`).

`DecoderProofs`, first about `ResultDecode`, for any finite sets of types and properties, any orders in which
vectors list them, paths of any length, from `DecodeInv`:

* `DecodesFaithfully`: the walk of a path stands before the element of its batch that it
  says it does, with the slot that element was encoded in (`WalkInv`), and what
  `prepareVector` stamped for a batch of nodes is right for its rows (`PreparedInv`).
  The lemma `StampedFacts` says that a stamp made for one element finds its properties
  whatever the schema held before; that is why overwriting it is harmless.
* `DecodingNeverThrows`: the lemmas `PairsLead` and `LaterSlot` say that the numbering of
  the special meta data through nodes and edges names a pair for every element,
  the last one's adjacency included.

`DecoderProofs`, then about `ValueDecode`, for any column types that nest at most twice, texts,
shapes, values and sizes of a batch:

* `ValuesComeBack` from `ValuesInv`. Plain values are read back: strings inside their cell
  or from a chunk, embeddings by the row's multiple of their dimension, shapes loop by loop
  (`PlainTypesParsed`, `PlainStreamsRead`, `PlainFlatsShown`). They are the parts of
  the inner composites, which then are the parts of the outer ones (`InnerFlatsShown`,
  `OuterFlatsShown`). `PathsRead` and `MixedShown` add the values that bring their types along.
* `ValuesInv` says that the schema is that of the column's type but for the positions
  stamped on it, that these are right for the batch being decoded, that a const
  batch holds one value, and that its cache is empty or holds that value. The property
  alone is not inductive: it says nothing of schema and cache, from which the next row is read.

`DecoderProofs`, last about `Decoder`: `ColumnCorrect` from `ColumnInv`, that a column keeps the
invariant of its part and does not touch the state of the others. `ColumnTypes` is its type,
`ColumnsComeBack` the four properties that the run `decode_columns` checks besides.

The proofs assume of the constants what the modules state: bounds are natural numbers,
the special values (`NoAlias`, `NoValue`, `Unset`, `Blank`) are none of the proper ones,
configs and sections have their types, first sections are sound, types and properties
of a column are finite, elements and catalog rows have their types (an element's properties
are finite, the pattern of an edge type has two ends), and a visit has a config, a section,
a permit and a host to begin with. Of the fixed-size values they assume (`BasicValues`,
`ColumnRows`) that the base of a byte is even, that every 32-bit value is a safe integer, that a
field of a time fits its signed bytes, that a packed datetime is not negative, that a sign, the exponents and the mantissas fill the
bits of a float, that the values
looked at are values of their types, and that zones are below the range of their field.
The code's own numbers meet them: 256; 2^32 - 1 <= 2^53 - 1; 24 and 60 below 128 and
10^6 below 2^31; 65536 years, 13 months, 32 days and a day's microseconds make less than 2^63;
2 * 2^8 * 2^23 = 2^32 and 2 * 2^11 * 2^52 = 2^64;
minutes of a zone are far below 2^32. Of the other values (`WireFormat`): texts are
sequences and finitely many are looked at, a point is one loop of one point, a line one loop, and
no loop is empty (the decoder drops an empty loop of a polygon, `src/decode/value.ts:603`); a
mixed column holds types of different forms, so that a value tells its type. That months and years all have one length is
the model's, and the reason why the theorem does not speak of leap years. TLC
evaluates the assumptions of every module that a run extends.

Only model-checked:

* Liveness (`ConnectSettles`, `ClosingCompletes`, `CallsSettle`): fairness, and that a call
  which can move forward is enabled to, are out of the prover's reach. The progress
  theorems above are what of it is safety.

## 5. Not modelled, and the plan

Every safety and action property that a run checks is also a theorem, in the three
compositions too. What the code would still allow to be said: types that nest more than twice, by
induction over types, which the prover cannot do; and payloads that are not well-formed, where
`BytesReader` records an error that nobody reads.

One more place has no property: the HTTP handler reads the trusted hosts once, when its
route is registered (`src/instances-api.ts:303`), which the comment at line 124 calls a
live read. `InstanceForm` has the list as it was then; the repository shows no cause for
it to change. The `timeoutMs` argument of `nebula_execute`, which its `execute` never
reads (`src/tools.ts:456`), has no behaviour to model.

Left out for good: wording and layout, G6 and DOM calls, the skill files, generated
protocol text, and graphd itself beyond what its client can observe.
