# llp-lab3: a TLA+ verification project

llp-lab3 is a document store in C.  A console reads path queries
(`root/client[@mime_type=text.plain]`, `create(root[@name=n]...)`,
`delete(root/client)`), sends them by protobuf-c RPC to a server, and the server
keeps a tree of nodes in one file made of slotted pages.  This directory models
the program from the bytes of a page up to the commands of the console, checks
the models with TLC and proves the core results with TLAPS.

All paths below are relative to the repository; `database/` stands for
`src/database/src/`.

## The system

| Part | Source | State | Operations |
|---|---|---|---|
| Slotted page | `database/storage/page/` | header (next id, count, free space), metadata records, payload bytes | new, add, get, delete |
| File, file manager | `database/storage/file.c`, `file_manager.c` | the file, its header (page count, free page) | open, read, write, read and write header |
| Page manager | `database/storage/page_manager/` | the list of allocated pages, the current free page | init, page_new, read_page, put_item, delete_item, free_pages, destroy |
| Iterators | `page_manager_iter.c` | current page, next page id, item index | page and item `new`, `has_next`, `next`, `destroy` |
| Document | `database/document_db/document.c` | the nodes, by page and item id; the root pointer | add, delete, update, delete trees, bulk add, reads by condition and by a sequence of conditions |
| Matchers | `node_value_matcher.c`, `node_conditions.c`, `src/server/fs.c` | up to nine conditions | made of filters; add, remove, match |
| Server | `src/server/` | the document | one handler per RPC, one call at a time |
| RPC | `src/rpc/` | none | conversions, generated stubs |
| Client | `src/client/` | one connection, made at the start; the last answers | find, create and delete by path; `init`, `init-example` |
| Parser | `src/client/parser/` | the query being built | grammar actions of `parser.y`, `types.c` |

Everything below the server runs in one thread; the layers call each other
directly and share the `Page` structures by pointer.  The document layer keeps
no index: every call scans the file with an item iterator.  The page manager
writes through: a page is written when an item is put or deleted, the header
when a page is counted or named the free page.  Pages in memory are freed by
every iterator step and at the end of every put, and `current_free_page` is
reset then and read again later.

What is hard about it:

- **Space on a page.**  Records and payloads grow towards each other; deleting the
  last item gives its space back, deleting another leaves a tombstone.
- **Crashes.**  Adding a page is three writes (header with the count, page, header
  with the free page).  The next page after a lost one leaves a hole in the file,
  and a hole reads as a page of zeros, whose id is 0.
- **Pointers into the cache.**  The free page and the iterator's page point into a
  list that is freed while both exist.
- **Tombstones.**  `page_get_item` asserts that it never reads one, the iterator
  reads every id.
- **Calls of several writes.**  An update is a delete and an add.  The deletion of
  a tree is a recursion over lists of children read earlier.
- **Ids.**  A node id is a place in the file and is used again after a delete.
- **Two passes** of a query, the first of which leaves its conditions on the
  matchers; and conditions that are put to every node of the file.
- **Commands of several calls**, with other clients in between, a server that exits
  on many errors, and conversions that drop fields.
- **Connections that are gone.**  A console looks at its connection only within a call: a
  server that ended and was started again while the console was at its prompt is
  not noticed before the next call, which fails although a server is up.
- **Filters that are attached before their node exists**, because the grammar
  reduces them first.

For each part, what makes it correct: a page and a file never lose or mix items
(`ItemStore`); the cache agrees with the file; a scan visits all items in order;
the nodes form a forest whatever is interrupted (`DocumentTree`); a query answers
the nodes its conditions select; every request is answered; a client's path
operation has the effect of the path.  `PROJECT.json` lists each hazard at its
line with the properties that would catch it.

## The modules

| Module | Models |
|---|---|
| `ItemStore` | abstract: a map from ids to payloads, put under a fresh id and remove |
| `Page` | one page, byte by byte: refines `ItemStore` |
| `PageImage` | a page as the layers above see it: ids, room, live items |
| `PageManager` | the page manager, file manager and file, one write per step, with crashes: refines `ItemStore` |
| `Scan` | what a loop over the item iterator meets: operators only |
| `ItemIterator` | `has_next` and `next` step by step, over any file: agrees with `Scan` |
| `DocumentTree` | abstract: a forest that grows and shrinks by leaves |
| `Document` | the calls of `document.c` in terms of `Scan`, one step per write: refines `DocumentTree` |
| `FileInfo` | the words of a file's value, filters and conditions: operators only |
| `PathQuery` | what a query by a sequence of conditions answers: operators only |
| `Query` | its counting and answering pass, one condition per step: agrees with `PathQuery` |
| `ParsedQuery` | the query the parser builds and the request made of it: operators only |
| `Parser` | the reductions of the grammar, one step each |
| `Server` | the handlers over `Document`, their answers and exits, restarts |
| `Client` | consoles and other callers with the `Server`: the whole program |
| `MC*` | the small instances TLC checks |
| `OperatorProofs` | lemmas about the operators on pages, paths and queries that the other proofs use |
| `PageProofs`, `PageManagerProofs`, `ItemIteratorProofs`, `DocumentProofs`, `QueryProofs`, `ParserProofs`, `ClientProofs` | the theorems |

How state and actions correspond to the code is in each module's comments and,
line by line, in `PROJECT.json` under `map`.  In short:

- `Page`: `nextItemId`, `itemsCount`, `freeStart`, `freeEnd` are the fields of
  `PageHeader`; `metadata` holds the records; `bytes` says for each byte who wrote it
  last; `item` is the `Item` the caller holds.  One action per function.
- `PageManager`: `diskHeader` and `disk` are the file; `header`, `cache`,
  `freePage`, `iter` the memory; `pc` and `call` say where a call is that writes
  more than once.  `Crash` may happen at every `pc`; `Close` ends a process whether
  it finished or aborted.  Failed assertions and `ABORT_EXIT` are endings of `pc`.
- `ItemIterator`: `page` and `index` are the iterator, `answer` what `has_next` said.
  The file changes only while no loop is running, as in `document.c`.
- `Document`: `pages` is the file; a scan is one step.  That is sound because
  nothing runs during a scan, `ItemIterator` shows that `Scan` describes it, and
  `PageManager` that what was written is what is read.  `update`, `targets` and `stack`
  are the calls that write more than once; `Stop` may cut them off anywhere.
- `Query`: `matchers` are the conditions of each `NodeMatcher`, `pass` and `at` where
  the two loops of `document.c` are, `parent`, `counted` and `answer` their variables.
- `Parser`: `nodes` is `q->nodes`, `typed` what the user has typed so far.  The
  reductions happen in the order bison makes them: the filters of an identifier,
  then the identifier, and the name of the function last.
- `Server`: `rpc` is what each client has with the server: nothing, a call, a call
  nobody answers, an answer; `connected` are the clients whose connection is to the
  process that was started last.  A handler is a step, over an action of `Document`; where
  the document writes more than once, `serving` is the client whose call it is and
  `Proceed` its further steps.  `proc` may also be `exit`, the `exit(1)` of a handler, a
  failed assertion or a NULL that is read.
- `Client`: `job` is the command each console is in, `added` is
  `g_add_node_response`.  `adds` is a bound; `meanwhile` is there only for the
  properties and records what others did to the file since the command was typed.

A connection is to one process and ends with it (`Gone`).  `client_service_new` makes
the console's only one and waits until it is there (`Start`); after that the dispatch of
protobuf-c-rpc runs only in the loops of `net_client.c:108-137`, that is, while a
call waits.  So nothing happens to a connection while its console is at the prompt, in
`fgets`: `Restart` leaves the console without one, its next call goes over the dead
connection, and the closure is called with NULL (`ConnectionLost`), whether or not a
server is up again.  protobuf-c-rpc is not in this repository; the model takes
from it that it answers every later call with NULL as well, at once, so that the loop
ends before the reconnect timer (`net_client.c:35`) is due.  A console that has lost its
server therefore stays without one until it is started again.  Callers are programs of
other people and connect for each call (`RawCall`).

`Server` takes a query as one step, with the answer `PathQuery` defines; that is
sound because the server runs nothing else meanwhile, and `Query` shows that the two
passes end with that answer.  In the same way `Client` takes a command line as the
query `Parsed`, which `Parser` shows is what the reductions build.

Abstractions: payloads and values are identities; all nodes have one size
(`sizeof(Node)`), so room on a page is counted in payloads (`PageImage`), with
`Leftover` for whether a full page still has `MINIMUM_DATA_PART_SIZE_BYTES`;
logging, clocks and freeing memory are left out.  Continuing an item on a second
page is switched off in the code (`item_management.c:70`) and so in the models.

Words are strings that are only compared; the value of a node is its type and its
words, which is what `strtok` makes of it.  An element of a filter that is not a
string is `Number`: its bits are read as a pointer, and the model ends the client.
Two writes and reads that C does not define are taken as the build makes them:
the additional filter that is stored one behind the array of the chain
(`helpers.c:195`) lands where nothing is freed, and the id of the parent that
`create` reads from an answer protobuf-c-rpc has freed (`converters.c:170`) is still
there.  When an obstacle and a condition would both end a query, the model names the
obstacle; either way the process is over.

## What the runs check

| Run | Bounds | Shows |
|---|---|---|
| `page` | 12 bytes, header 1, record 2, payloads of 1, 2, 4 | items never overlap, payloads and records stay intact, the count is right, a held `Item` stays valid, refinement of `ItemStore` |
| `page_manager` | 3 pages of 2 items, one payload too large, 2 crashes | header, cache, free page and iterator agree with the file; only a crash makes a page unreadable; the file is an item store whatever the crash |
| `page_manager_init` | the same, 1 crash | **violated**: opening asserts when page 0 was never written |
| `item_iterator` | 3 pages of 3 items | loops visit all items in order, or trip at the first deleted item; they end |
| `document` | 3 pages of 2 nodes | the file is a forest; at most one obstacle, for ever; tree deletions remove exactly the trees and only an obstacle stops them; updates keep the node when the new parent comes first; calls end |
| `document_root` | the same | **violated**: a second root |
| `document_scan` | the same | **violated**: a scan reads a deleted item |
| `query` | all forests of 4 nodes on 2 pages, all chains of 3 of 4 filters | both passes agree and end with the answer of `PathQuery`; answers are nodes the path means, all of them when it is unambiguous; matchers never overflow |
| `parser` | 3 parts, 4 filters on any of them | the query keeps what was typed; paths of the form of `examples.txt` ask for what was typed; `create` makes the file with its attributes, in whatever order |
| `parser_last_part` | the same, 1 filter | **violated**: the filter behind a third part is lost |
| `client` | a console and a caller, 3 pages of 2 nodes, 5 adds, 1 restart | while the console has its connection, `init` and `create` do what they say among the calls of others, and no line of `init` reaches a server that was started in between; every call keeps the file a document; consoles end the server only on nodes that are not files or on a deleted item; commands end, also over a connection that is gone and beside a caller that is never answered |
| `client_get_node` | the same, without adds and restarts | **violated**: `get_node` is never answered |

The bounds let the interesting cases happen.  A page of 12 bytes holds up to
three items, fills exactly, and keeps a leftover smaller than a record.  Three
pages are a first, a lost and a next one, so a hole appears, becomes the free
page and is met by the iterator.  Two crashes allow a crash during the recovery
from another.  Three pages with an empty one in the middle are what the iterator
must pass over.  Six nodes make directories with entries on the same page (a
tombstone) and on several.  Four nodes are a path of three with a choice on the way, and two
pages make `First` go by the page before the item.  Three parts are the first for
which the order of filters and nodes goes wrong, and four filters are a file.  Five adds
are `init` with its three lines and a create before or behind it or both, or the example;
they fit the three pages, so that the bound on pages never stops the server.  The caller
uses the calls for which the console has no command and deletes or adds what the
console relies on.  The restart is the second process, which a console meets without a
connection before, during and after a command; consoles may be started again any number of
times.

Deadlock is not checked: an aborted or full instance, a query or a command that is
done, and consoles that were left may really stop.

The five violated runs are the `findings`.  `document_scan` has a consequence the
`document` run states as a property that holds (`ObstacleIsForEver`): after one
delete of an item that was not the last of its page, no delete ever succeeds
again.  `client` shows how far that reaches: `ConsolesDoNoHarm` has to except it.

**Fairness.**  `ItemIterator` assumes that the loop takes its next step, and
`Document` that a call in progress does (`WF_vars(InCall)`): both are straight
single-threaded code that waits for nothing.  `Client` assumes that the handler of a
call is taken when the server is again and again ready for it (strong fairness for
each client: the dispatch loop of `server/main.c` polls all connections in turn, so
that none is passed over for ever); that a call in progress continues, the closure of a call made
over a connection that is gone is called with NULL, and a console runs the loop it
waits in (weak fairness).  New calls, commands, kills, stops, restarts, openings and starts of
consoles are not assumed to happen.  All other properties are safety properties and assume no
fairness.

## What is proved

Everything here holds for all values of the constants, under the assumptions the
modules name: `SizesAssumption` and `FillersAssumption` of `Page`,
`CapacityAssumption` of `PageImage` (a page has room for an item),
`SizesAssumption` of `PageManager`, `MaxPagesAssumption` of `ItemIterator` and of
`Document`, `ChainsAssumption` of `Query` (a chain is a finite sequence) and its
`ForestsAssumption` (a file is finite and its ids are pairs of page and item),
`ParserAssumption` and `FiltersAssumption` of `Parser` (a filter has one of the four forms of the
grammar), `ServerAssumption`, and those of `Client`: consoles and callers are different clients
(`ClientsAssumption`), what callers send are values and chains (`RequestsAssumption`), what is typed is a path
with names, whose filters but `[*]` have something to compare with
(`CommandsAssumption`), a line of `init` names a line before it, but for the first, the
root, which names none, as `fill_db_from_lines` asserts (`LinesAssumption`), and a page
has room for more than one node (`RoomAssumption`: 4096 bytes in `server/main.c`, for
values of 256).  In each module one invariant is shown to be inductive
(`Init => Inv` and `Inv /\ [Next]_vars => Inv'`, with one lemma per action), and the
properties of the runs follow from it.

`PageProofs`, for all sizes of pages, headers, records and payloads:
`IndInv` joins the type invariant, `Layout`, the intactness of payloads and
records, the count and the handle.  `Layout` is what makes the rest inductive:
the payloads tile the page, so the last record's size is exactly what its delete
may give back.  From it follow `TypeOK`, `Layout`, `NoOverlap`, `PayloadsIntact`,
`MetadataIntact`, `CountMatchesLive`, `HandleFresh`, and that each step is a `Put`, a
`Remove` or a stutter of `ItemStore`.

`PageManagerProofs`, for any number of pages, calls and crashes.  `PInv` says of the
file that its first page is never a hole, that the header counts at least the pages
it has and names a free page that was written (`FileOK`); of a process that its
header is the file's (`page_manager_page_new` changes and writes it in one step of the
model), and that each page in memory is the only copy of its id and is as in the
file, unless it is the one `page_new` has yet to write, or a hole under the page
iterator (`MemoryOK`); and of a call between two writes what its next step relies on
(`CallOK`).  A hole is what a crash between the two writes of a new page leaves when
a later page is written behind it: it is why the header may count more pages than can be read.
`FileOK` alone is inductive through `Crash`, and `InitOldFile` builds the rest from it.
From `PInv` follow `TypeOK`, `HeaderCoversFile`, `OneCopyPerPage`, `CacheCoherent`,
`FreePageValid`, `IteratorOnItsPage` and, since an item is only ever written to the
page that was read, that the file is an `ItemStore` through all crashes
(`ManagerImplementsItemStore`).  `Complete` adds what holds before the first crash:
the header counts exactly the pages, no page is a hole, and so
`ReadableWithoutCrash`.

`ItemIteratorProofs`, for files of any size and deleted items anywhere on them.
`IInv` says that the items read are those up to the cursor, in their order
(`Reading`), and that the cursor has passed no obstacle but the one it tripped over
(`Tripping`).  The work is in `AdvanceIs`: what lies between the cursor and the next
id `has_next` finds are pages that are empty or whose last item was deleted, and
`Obstacles` are exactly the deleted items of the others.  So a loop is in order and
complete (`VisitsInOrder`), and ends with all items or at the first obstacle
(`EndsWithAllOrTrips`), which is what the operators of `Scan` say a scan does.

`OperatorProofs` says what adding an item to a page and deleting one do to its image,
that a nonempty set of ids has a first one, and what a path of conditions reaches;
the proofs above `Page` look at pages only through it.  It also opens the folds the parser
is written with: `FoldExists` shows, by the least length at which there is none, that
there is a function that folds along the places, so that the library's definition
has the steps it is meant to have (`FoldedSteps`), one more for one more place
(`FoldedLonger`).  With them `RequestIsChain` says that
whatever is typed, the server need not reject the chain that is made of it, and
`ParsedNames` that the chain of `create` asks for the parts of the path as they were typed,
one condition each, if none is called like the parser's placeholder `_root` (which `add_node`
of the parser renames).  `AnswerGrows` says what a path reaches in a file to which a node was added
behind all others: at least what it reached before, since the first match of every part
stays the first.

`DocumentProofs`, for files of any size:

- `Shape` places the pages and bounds their ids, and `UpdateReady` says that the
  second step of an update has room and a request.  Together they are inductive.
  With `Shape`, the id `next_item_id` of the last page is free, which is what
  `Persisted` and `Removed` need to say what a write does to the nodes.
- `StepIs`: every step `Grows`, `Shrinks` or leaves the file alone.  From this
  follows `ImplementsDocumentTree`, and by adding `HasParents` and `NoCycles`,
  which are inductive together, `WellFormed`: a new node's id was free, so no node
  names it as its parent.
- `ObstaclesSeen` strengthens `OneObstacle`: a page with a deleted item has a
  node, so no deleted item hides on a page that scans skip.  A page would have to be
  emptied for that, and a file with an obstacle has no more deletions.  With it `OneObstacle` is inductive, and
  `ObstacleIsForEver` and `UpdateKeepsNode` follow.
- `CallTyped`, with `FirstIs` (a nonempty set of ids has a first one), completes
  `TypeOK`.

A caller may name any id, of a node, of a deleted one or of none at all
(`DeleteNode` and `UpdateNode` take an `x` of `NodeIds \cup {NullId}`); the proofs
hold for all of them.

The deletion of trees, in the second half of `DocumentProofs`, for trees of any depth
and width.  `Path` says that the frames
are a path of the forest whose ids are distinct, that what a frame still has to
delete is exactly the children its node has left, and that the roots the call
was made for have one parent.  The hard step is the one that deletes the top:
that node must be on no other frame's list (`TurnOfOne`).  Two frames would need
one id, or the roots' parent would lie on the path, a cycle (`NoLoop`).  From
`Path` follow `OnlyObstaclesStopDeletion` and `DeletesExactlyTheTrees`.

`QueryProofs`, for files of any size and chains of any length.  The invariant
`QInv` says what the rounds have made of the matchers: in the first pass each
matcher behind the loop's index holds its filter's condition and the one on the
parent of its round, which is the first node the matcher before it chooses, and the
others hold their filter's condition alone; in the second pass all hold both.  The
second pass pushes the same condition again, and `TwiceIsOnce` says a matcher then
chooses the same nodes.  So no round finds nothing, the last one finds the number
counted (`PassesAlwaysAgree`), and a matcher never holds more than two conditions
of the ten it has room for.

`AnswerInv` adds what has happened on the way: every condition behind the loop's index
was asked of nodes that can answer it, and the parent of each round is the one
`PathQuery` chooses (`Walked`).  So the two passes end with the answer `PathQuery`
defines, or end the process exactly where it says (`EndsWithTheAnswer`), which is what
`Server` takes for a query; and that answer is what the path means
(`AnswersWhatThePathMeans`).  `PathQuery` defines ways and reached nodes as recursive
functions over the length of a path.  What they compute is not proved by
induction, which the provers cannot instantiate: `StepByStep` takes the least
length at which a claim fails (`LeastNumber`) and shows that the step before it
contradicts it.

`ParserProofs`, for commands of any length and any words.  A filter is reduced before the
identifier it belongs to, so that the query is always one part behind: `ParserInv` says that it
is the one made of the parts before, with the filters of the part that is being read
attached already, and that the filters of all nodes are those that were typed, in their
order (`AddFilterJoins`, `AddParsedNodeJoins`).  A new part is one step of the fold that
`Parsed` is, a new filter one of the fold `AddPart` has inside (`ParsedSnoc`, `FilteredSnoc`).
From `ParserInv` follow `QueryKeepsWhatWasTyped`, and for the paths of `examples.txt`, of two
parts at most with filters at their end alone, what is asked: these filters are all the first node's
(`FirstNodeFiltered`), where `convertNodesToFilterChain` looks for one
(`ExamplesAskedAsTyped`) and `convert_query_args_to_string` for the attributes of a file; four
filters that name all four attributes name each once (`FourNamed`), so that no
later one overwrites an earlier one (`CreatesFileAsTyped`).

`ClientProofs`, for any number of consoles and callers and whatever they call.  The
invariant `CInv` is the one of the document (`DocumentInv` of `DocumentProofs`, which joins
all that is inductive there), stated of the file behind the server with `proc <- Outcome`
(a process that did `exit(1)` left the document as a call that failed does), and
`Desk`: what is called has values and chains, a console that does something has made
the call of its command, and the server is in the call of a client that waits for it
over a connection.
Each handler is then a step of `Document`, a stutter, or a restart with an empty file
(`StepServes`, `ServesADocument`), so that everything proved of the document holds behind the
server (`ProgramInvariant`).  Two of its cases say something about the code: ids that
a caller made up find nothing and change nothing (`StrangersAre`), and all nodes a chain
finds have one parent (`FoundAre`), which `Path` needs of the trees that are deleted together
and nothing in the server checks.  With `Path`, a deletion is ended by a deleted item only;
so a console's command ends the server only with the excuses `ConsolesDoNoHarm` names.

The command `create` makes two calls, and others may change the file between them.  `Finding`
is what has to be true there: as long as nothing was lost since the command was typed,
the ids it was answered, and later the parent it names, are still among those its path leads to.  A
step of another client keeps that because a step that loses no node adds one behind all others
(`OnlyGrows`), so that the ways through the file stay (`FoundStays`).  The parent is therefore
there when the server looks for it, the node is accepted, and it is the one that was asked for
(`CreatesUnderThePath`).

What a console relies on between its calls holds only while it has its connection: `Worst`
takes a connection that is gone for a loss, whatever happened to the file, and `StaysGone` says
that the console of a command does not get one back before the command is over.  So
nothing has to be said of the file of a server that was started since, and the answers with
NULL that a command gets from then on build on nothing.

The command `init` makes a call for each line, after one that deletes nothing.  `Filling`
is what it relies on between them, as long as it is `Undisturbed` (it started in a file
without nodes, the connection stands and nothing was lost since; the example in a new file
nobody else wrote to): each answer so far is the id of a node that is as its line
says, and no two are the same (`Built`); and the file has no deleted item, which is why the
next call cannot end the server (`LineIsAdded`).  That there is none is true when the command is
typed because a file without nodes has no deleted items (`EmptyIsClear`); a step of
others keeps it because whatever loses no node leaves no deleted item and changes no node
(`StaysClear`, `WorseKeeps`).  A line's parent is then there when the server looks for it,
and the line gets a node with an id no node had (`BuiltOn`), but for one case: the first line
is refused when somebody else has added the root in between, answered with that root's
id (`RootIsRefused`), and the tree is built below it (`BuiltOnOthers`).  The example names the ids
(0,0) and (0,1) itself; `Begun` says that its first two nodes have them, for which the file
has to be new and its first page to take two nodes.  From `Filling` follows
`FillsBuildTheTree`.

Only model-checked: liveness (`LoopEnds`, `CallsEnd`, `CommandsEnd`), which is out of
the prover's reach.  The properties that runs show violated (see the findings) are false, so
that nothing is to be proved of them.

## What is not modelled, and why

- Failing and torn writes: the code has no recovery to state a property about.
- `document_add_bulk_nodes`: it frees its iterator in the loop and again behind it
  (`document.c:325`), which is undefined on every successful call, and nothing
  calls it.
- A crash inside `page_manager_page_new` as seen from `Document`: `PageManager`
  covers it, and `Document` takes the newest page for the free page.
- Packing and unpacking of messages, and the generated tables: protobuf-c's, bison's
  and flex's.  Of the generated stubs only the call is modelled.
- `run_main_loop` of the network client, the functions that print a query and the
  stand-alone `parser/main.c`: no state, or no caller.  The calls `net_client.h`
  declares without a definition (`client_update_node` and others) do not exist; a
  caller makes them.
- The reconnect timer of protobuf-c-rpc and its dispatch: external, taken as described
  above.
- Reading the file of `init`: the model starts from its lines.
- `document_tree.h` and `storage.h`: nothing uses what they declare.

## Observations

What the models say about the code beside the findings, without a run of its own:

- The server removes its file at every start (`server/main.c:37`), while the
  repository's README says a new file is created when there is none.  `Restart` does
  what the code does, and a crash of the server therefore loses every node.
- `client_delete_all_nodes` sends an empty chain, for which nothing is counted and
  nothing deleted: `init` adds to the nodes there are (`ClearResponse`).
- `document.c:503` says of a query that it "applies first on all nodes"; the first
  condition is only met by roots, since the condition on the parent is added to it.
- `server.c:86` has a TODO: "returns 0 on /ssl when not restarted".  In the models a query
  keeps nothing for the next one (its matchers are made anew), and what a restart changes is
  that the file is empty.  They do say how a path can find nothing until then: in a
  file that has a root already, `init` does not get its own, its first line is
  answered with that root's id (`HandleCreateNode`), and the tree is built below the
  root of the other name.
- A console whose server was started again gets NULL for every call until it is
  started again itself: `delete` does nothing, `init` adds nothing or dereferences an id that was
  never set, and every command that asks for nodes reads the answer NULL
  (`net_client.c:93`) and ends the console.
- `create` goes on with an id it asked for before: when another client deleted that node and a
  new one got its id, the file is created below the new one, which the path does not lead
  to.  `CreatesUnderThePath` excepts losses in between for this reason.
- `HandleFresh` is about the one `Item` a caller holds; two copies of one `Item`, of which one is
  deleted through, are nowhere in the code.
- A query goes on below the first match only and never comes back
  (`AnswersWhatThePathMeans` therefore asks for an unambiguous path).
- `delete_node` ends the server on success as well (`HandleDeleteNode`), and
  `update_node` moves every node under (0,0) (`HandleUpdateNode`).
- A comparison other than `=` is asked as an equality (`ExtraFilter`), and the command
  `update` asks nothing.

## Plan

1. Done: page, page manager, iterators, document; their runs and the proofs above.
2. Done: `Query` with `PathQuery` and `FileInfo`.
3. Done: `ParsedQuery` and `Parser`.
4. Done: `Server`, and `Client` composed with it.
5. Done: the proofs of the page, the page manager, the item iterator, the document with
   its deletions, the query, the parser, and the server with its clients and the commands
   `create` and `init`.
