# Terebi, specified

TLA+ models of the Terebi LPMUD driver (the Java code under `src/modules`) and of two parts of the
mudlib it runs (LPC code under `src/modules/lib.ds/lib`), model-checked with TLC and, for the results
under "Proofs", proved with TLAPS.

## The system

Terebi compiles LPC source to JVM classes and runs a mud on them. Its parts, the state each keeps and
how they interact:

| part | state | operations | interacts with |
|---|---|---|---|
| game lock and contexts (`InContext`, `RuntimeContext`, `ThreadContext`, `CallStack`, `ExecutionTimeCheck`) | one monitor for all LPC code; per thread a context with a call stack and attributes, and an evaluation timer | activate, execute in context, push and pop frames | everything that runs LPC |
| call-outs (`CallOutManager`, `call_out`, `find_call_out`) | a priority queue under its own lock, a handle generator, one thread | add, find, poll, fire | LPC threads call add; the thread takes the game lock to fire |
| network server (`NetServer`, `ChannelListener`, `TelnetChannelConnectionHandler`, `TelnetChannelConnection`) | an acceptor thread, a selector thread, ten reader threads; per connection a monitor, a buffer, telnet features, an open socket | accept, select, read, write, close | readers call the shell; LPC writes to any connection |
| object shell (`ObjectShell`, `InputHandlerSet`, input handlers) | which object a connection drives, which connection an object has, the handlers of an object, `exec` switches | connect, logon, input line, `exec`, `input_to`, destruct | connections on one side, LPC objects on the other |
| object manager (`LpcCompilerObjectManager`, `CompiledDefinition`, `VirtualObjectDefinition`, ...) | definitions by name, what is being compiled, instances by id, each definition's master, the master object | find, compile, load, clone, virtual compile, destruct | called by efuns; runs `create` in LPC |
| environments (`Environment`, `move_object`, `present`) | the tree of objects in objects | move, destruct | runs `init` in LPC |
| engine and plugins (`Engine`, `PluginController`, `Plugin`) | phase of the start-up, the system context | load, init, epilog, start, run | creates all of the above |
| LPC sockets (`plugin.net`) | table of sockets, resolver thread | create, bind, connect, close, resolve | call back into LPC |
| actions (`plugin.action`) | the action sets of an object | add_action, command | input handlers |
| mudlib: mail (`post.c`, `folders.c`, `letters.c`, `localpost.c`) | a file per folder and per letter, one folder and one letter in memory, mailers with marks and prompts | read, mark, delete, save, send, quit | `input_to`, `find_player`, `destruct` |
| mudlib: login (`connect.c`, `master.c`, `interactive.c`, `autosave.c`) | the prompt of each login, players' files, the bodies loaded for them, pending call-outs | ask, create, enter, save, promote, quit | the shell (`exec`, `input_to`), the object manager, call-outs |
| mudlib: bodies and their equipment, combat, intermud, verbs | per object | one command or heart beat at a time | environments, call-outs |
| compiler front end (`parser`, `preprocessor`, `compiler`), values and pure efuns, persistence | none across calls | pure translations | |

The code is concurrent in a few places only, and they are the hard ones: the call-out thread against
LPC threads, reader threads against each other and the selector, connection monitors against the
game lock, the acceptor against the readers. All other hazards come from call-backs: LPC code that
destructs, moves, loads or switches objects in the middle of the operation that called it.

What each part keeps, what makes it hard, and what must hold of it:

- **Call-outs.** State: the queue, the next handle, the thread's clock reading and the entry in its
  hand. Hard: `add` and the search by name come from other threads while the thread is between its
  peek, its timed wait, its poll and the game lock; one callback's error ends the thread. Right means:
  no entry lost or called twice, none early, order of deadline and registration, no lost `notify`,
  every entry called in the end.
- **Network server.** State: the interest set of each selection key, the queue of the reader pool, a
  monitor per connection, the chunks on their way. Hard: the key is re-armed before the connection is
  read, connections are closed under the selector's hands, a reader holds a monitor while it waits for
  the game lock. Right means: input arrives once and in order, no connection is forgotten, and where
  threads can lock each other up it is known where.
- **Object shell.** State: a web of attributes (connection to object, object to connection, where the
  connection went, handlers, a destruct listener) and a context per line. Hard: `exec` in any order
  with `destruct`; lookups of user and handlers outside the game lock; handlers that remove themselves
  from an unsynchronized list. Right means: connections and users pair off, a callback of `input_to`
  takes one line, a connection closes with its user.
- **Object manager.** State: the tables of definitions and of objects, the set of names being compiled,
  and per definition its master and whether that is being loaded. Hard: `create()` and
  `compile_object()` run in the middle and may load, clone, destruct and fail. Right means: the marks
  are gone whenever the call that set them is gone, one definition per file, no destructed object found.
- **Environments.** State: an environment per object, an inventory per object. Hard: `init()` runs
  while the inventory is walked. Right means: environment and inventory agree, and every walk meets
  every object once.
- **Contexts and timer.** State: a stack of contexts and of call frames per thread. Hard: nesting
  (a compile inside a call inside an input line) and exceptions. Right means: every push is popped.
- **Engine and plugins.** State: the phase. Hard: plugins that fail in one phase. Right means: phases
  in order, no plugin run that has not been loaded.
- **LPC sockets.** State: the table of sockets, the status of each, requests of the resolver. Hard: the
  resolver's thread answers before the token is returned; the close callback runs before the socket is
  closed. Right means: one answer per token, no call into a closed socket's owner.
- **Actions.** State: the action set of an object and the verb of the command that runs. Hard:
  `command()` nested in an action. Right means: `query_verb()` is the verb of the innermost command.
- **Mail.** State: what is saved (folders, letters and the folders each is in), what the daemons hold in
  memory, and in each mailer a copy of a folder with marks. Hard: marks and reads go by index while mail
  comes in; there is one folder in memory for all users; an addressee's error ends the delivery; prompts
  pile up. Right means: memory and files agree, a letter can be read where it is listed and nowhere
  else, and none is deleted that was not marked.
- **Login.** State: for each connection its channel, its login object and its body. Hard: two logins of
  one name find the same body, a destructed body is still found, call-outs destruct what is in use, and
  the efuns do not keep the contract the code was written for. Right means: one driver per body, no
  prompt lost, a character with its own player's answers, creators stay creators.

PROJECT.json lists every component with its status, and the hazards one by one with the line where
they bite and the properties that watch them.

## The models

| module | models | abstract specification | runs | proofs |
|---|---|---|---|---|
| `CallOuts` | call-outs, the call-out thread, the game lock | `CallOutService`, `GameLock` | `callouts` | `CallOutsProofs` |
| `Connections` | acceptor, selector, readers, monitors, game lock, clients that hang up | `GameLock` | `connections`, `connections_live` | `ConnectionsProofs` |
| `Sessions` | shell, input handlers, `exec`, `input_to`, `this_player`, destruct | `GameLock` | `sessions`, `sessions_input`, `sessions_player` | `SessionsProofs` |
| `ObjectManager` | load, compile, clone, virtual compile, destruct | | `objects` | `ObjectManagerProofs`, `ObjectTablesProofs` |
| `Environments` | `move_object`, inventories, `init()` | | `environments`, `environments_init` | `EnvironmentsProofs` |
| `PostOffice`, `Mail` | the mail daemons; the mailers over them | | `mail`, `mail_routes` | `MailProofs` |
| `Logins` | login objects, player files, bodies, call-outs, restarts | | `logins` | `LoginsProofs` |

Each `MC...` module gives the constants of its model values for TLC and nothing else. In all modules
an action is what one thread does between two points at which another can see it: a block synchronized
on one lock is one action, a block that runs LPC code in the middle is several. What LPC code does is
any sequence of the efuns that touch the modelled state. The *mutants* in the modules (`NextIdNoWrap`,
`ReadUnlocked`, ...) are not part of the models: each is a plausible bug that the property it is paired
with in PROJECT.json detects.

### Call-outs

`CallOuts.tla` models `CallOutManager`, its priority queue and "call-out" thread, the `call_out` and
`find_call_out` efuns, and the game lock that every thread takes to run LPC code (`InContext`).
`CallOutService.tla` states what `call_out` promises; `CallOuts` is shown to implement it with
`pending <- queue, taken <- hand, done <- fired, up <- pc[CallOut] # "dead"`.
`GameLock.tla` states what the lock of `InContext.execute` promises (lines 39 to 53: `Start`, `Stop`);
`CallOuts`, `Connections` and `Sessions` are proved to implement it.

| code | model |
|---|---|
| `CallOutEfun.execute`, then `CallOutManager.add` | `CallOutEfun(t)`, which computes the deadline, then `Add(t)` |
| `FindCallOutEfun.execute` by name | `SearchByName(t)` ... `SearchEnds(t)`, or `Throw(t)` for a `ConcurrentModificationException` |
| `processNextCallout` | `ReadClock`, then `NothingQueued`, `TooEarly(e)` or `Take(e)` |
| `_lock.wait(time)` | `TimedOut`, `SpuriousWakeUp`, and `Notified` in `Add` |
| `execute` | `Fire` (wait for the game lock), `Fired` or `Throw` |
| `Entry.compareTo`, `PriorityQueue.peek` | `Before`, `Heads` |
| `IdGenerator.next` | `NextId` |

`issued` and `fired` are histories. Time is in the ticks of 100 ms that the efun multiplies with.

- `NothingLost`: every entry is in one of queue, hand and fired. `ServiceSpec`: none early, in order,
  once. `OnePollPerSearch`: the walk without the lock sees one poll at most. `NeverOversleeps`: no lost
  notify. `HandlesFarApart`: a handle comes back only after all the others. `EventuallyFires`: every
  entry is called, unless the thread has died of an earlier callback's error.
- When two queued entries have the same handle `compareTo` calls them equal whatever their deadlines,
  and the queue is no longer ordered; `Heads` then allows any head. `ServiceSpec` and `NeverOversleeps`
  are for the time before that, which with the code's range is for ever.
- *Bounds.* Two LPC threads, three entries, delays -1, 0 and 2, a clock to 2: enough for an entry to
  arrive while the thread is anywhere in its loop and for another to overtake it. MaxId = 3 so the
  generator's counter wraps but no handle is reissued in the run; the reissue is what
  `HandlesAreFarApart` proves for every range.
- *Fairness.* Weak for time and for every step of a thread that needs no lock; strong for taking the
  game lock (`Fire`), because Java passes no waiting thread over for ever, and for the end of LPC code,
  because `ExecutionTimeCheck` ends it.

### Connections

`Connections.tla` models `ChannelListener` (`Accept`, `Logon`, `LogonEnds`, `LogonFails`, `Register`),
the selector thread of `TelnetChannelConnectionHandler` (`Select`, `ClearInterest`, `Dispatch`,
`SelectorDies`, `SelectAgain`), its pool of `ConnectionReader`s (`PickUp`, `Arm`, `GiveUp`, `Read`,
`ReadFails`, `InputReceived`, `InputHandled`, `ReadEnds`), clients that send and hang up or lose the
connection (`Send`, `HangUp`), and LPC code that writes to a connection (`Write`,
`Written`) or closes it (`Close`). `monitor` is the Java monitor of each connection, taken by
`readInput` and by `getWriter`; `game` is the game lock.

- `OneSignal`: an open connection has exactly one of: interest set, in the selector's hand, queued for
  a reader, taken by a reader that has not re-armed. So it is neither forgotten nor served twice from
  the queue.
- `InOrder`: chunks reach the shell in order although two readers may serve one connection.
- `EmbraceIsForEver`: LPC code that writes to another user while that user's reader waits for the game
  lock is a deadlock. The property says that the state, once reached, stays.
- `InputArrives`: input reaches the shell unless the connection is closed, the selector died of a
  cancelled key, or the threads are in the embrace.
- The end of input is not noticed: `readInput` takes the -1 that `read` returns for no data. The key of
  a client that has gone stays readable, and selector and readers go round until LPC code closes the
  connection. One that breaks is closed by the reader, which has re-armed the key: `select` may have
  returned it by then, and the selector dies of it as it does of a connection closed by LPC code.
- *Bounds.* Two connections of two chunks and two readers give every overtaking of two readers
  (2,148,657 states); liveness is checked with one connection, whose other writer is the call-out
  thread (10,065).
- *Fairness.* As for call-outs; the pool's queue is first in, first out, which strong fairness of
  picking up a connection's reader states.
- `CHECK_DEADLOCK FALSE`: the embrace, a dead selector or all input handled are ends.

### Sessions

`Sessions.tla` models `ObjectShell`, `InputHandlerSet` and its handlers, `exec`, `input_to`,
`this_player` and the destruct listener. A connection's thread is named by the connection, since its
monitor admits one reader at a time (`Connections`). Looking up the line's user (`Line`), copying the
handlers (`StartClone`, `EndClone`) and removing one (`StartRemove`, `EndRemove`) happen outside the
game lock and are actions of their own; `Callback` and `Process` take the lock. An `ArrayList` that one
thread changes while another uses it is a data race: the connection goes to `raced`, and nothing is
said of its handlers from then on.

- `Linked`, `OwnHandlers`: see the comments; they hold for `exec` with any object, destructed and
  formerly connected ones included (`SharedBodies = TRUE`).
- `ClosesWithUser`: destructing a connection's user closes it, and nothing else that LPC code does. The
  one other end is a read of its own that fails (`ReadFails`); no object is told, so that the closed
  connection keeps its user and no step ends that.
- `CallbackOnce`, `CallbackWaits`: a callback of `input_to` takes one line and is not lost. These need
  `SharedBodies = FALSE`: an object that has had two connections has two threads with its handlers.
- `PlayerFollowsExec` is what the change log says, and is violated.
- Assumed: `connect()` returns an object of its own, that no other code touches before the shell has
  linked it.
- *Bounds.* Two connections and three objects let a connection go there and back and on, while the
  other takes the place; two callbacks are the least that can be confused with each other.
- `CHECK_DEADLOCK FALSE`: all connections may be closed.

### ObjectManager

`ObjectManager.tla` is sequential: everything runs under the game lock. The Java stack is a variable,
so that `create()` and `compile_object()`, which are LPC code, may start any request in the middle of
another, and an exception may unwind through any of them (`Fail`, `Unwind`, `Catch`). A request
(`load`, `clone`, `inherit`, `ask`) is a `findObject` and what its caller does with the result. A
compiled function wraps every Java exception that leaves it, so that `catch` in LPC catches all.

| code | model |
|---|---|
| `LpcCompilerObjectManager.findObject`, `compile` | `Found`, `Compile`, `CompileCycle`, `CompileFails`, `Inherit`, `Inherited`, `Define`, `Compiled` |
| the rest of `compile` and `compile_object()` in the master object | `AskMaster`, `CompileObject`, `NotFound`, `DefineVirtual` |
| `AbstractObjectDefinition.getMasterInstance` | `LoadMaster`, `InitFails`, `MasterLoaded`, `NoMaster`, `LoadDone` |
| `clone_object`, `CompiledDefinition.newInstance` | `Clone` |
| `CompiledObject.destruct`, `VirtualInstance.destruct` | `Destruct` |

- `MarksMatchStack`: `_compiling` and `_loadingMaster` are set just while the call that set them is on
  the stack, whatever failed in between; nothing is compiled or loaded twice at a time.
- `FindAgreesWithLoad`, `FoundAreAlive`, `MastersAreAlive`: the two tables, the masters and the
  destructed objects agree. Virtual objects are excepted, because destructing one destructs the object
  behind it and takes that one, not the virtual object, out of the tables; so is a master destructed
  in its own `create()`.
- `OneDefinition`: one definition per file, if it is always named the same way.
- Assumed: the master object's name is set before other LPC code runs; field initialisers load nothing.
  Prototypes' hidden instances, life-cycle listeners and the bytecode store are left out; the id of a
  clone is taken in `Clone`.
- *Bounds.* Three files: the master object, one that inherits it, and a virtual one; three definitions
  and three instances, so that each can have a master and one can be cloned, or a master destructed and
  loaded anew.

### Environments

`Environments.tla` models `Environment.move`, `MoveObjectEfun.execute` and `destruct`. `Move` does the
move and reads the inventory that the loops will walk; each loop of the efun is a *walk*, a frame with
its list and its iterator: `InitHere`, `InitOther`, `OthersEnd`, `InitByLiving`, `SkipLifeless`,
`MoveEnds`. Java's iterator compares modification counts: a walk whose list has been changed is `stale`
and its next step fails (`IteratorFails`), unless the cursor happens to be at the end. An exception
ends everything down to some LPC frame that catches it, or to the outside. destruct clears the object's
own attributes, so its old inventory list lives on for the walks that have it and a new one is made
when something moves in; a list is therefore named by its object and whether it was made after that.

- `InventoriesAgree`: an object that has not been destructed is in the inventory of its environment,
  once, and in no other.
- `MeetsOnce`: no walk comes to the same object twice, however `init()` moves it.
- `EachLivingMeets` is what a comment in the efun says, and is violated: the walk fails half way.
- As in the code, nothing keeps an object out of its own contents.
- *Bounds.* A room and two living objects, one of which may be destructed, and calls from frames up to
  the third: a move in an `init()` in a move, which is the least that disturbs a walk. Three living
  objects in `environments_init`, so that one is left over.

### Mail

`PostOffice.tla` has the state of FOLDERS_D and LETTERS_D and their operations as operators from one
state to the next; `Mail.tla` has the mailers, clones of `post.c`, and a user's commands. A line that a
user types goes to the handler that `input_to` installed last and runs to its end under the game lock,
so an action is a line.

| code | model |
|---|---|
| `folders.c`: `add_post`, `mark_read`, `delete_posts`, the restore and save around them | `AddPost`, `MarkRead`, `DeletePosts` with its loop `DropPosts`, `Load`, `Save` |
| `letters.c` | `CreateLetter`, `AddFolder`, `DeleteFolder` |
| `localpost.c`: forwarding, rejected addressees | `Delivered`, `Served`, `SendPost` |
| `post.c`: start, `index_cmd` and what it calls, the prompts | `StartMail`, `StartPost`, `Read`, `Delete`, `Undelete`, `UnreadDelete`, `SaveToFile`, `ChangeFolder`, `Quit`, ... |
| `incoming_post` | `Incoming`, from `Send` |

The mudlib was written for another driver. `contract` is drawn at the start and never changes: FALSE is
what this repository's efuns do (`find_player` finds nobody; the second argument of `input_to` is an
integer flag, so that a call with a string or an array throws), TRUE is what the mudlib takes them to
do. Properties hold in both unless they name the contract.

- `CacheIsSaved`: FOLDERS_D's one folder in memory is the saved one, whoever asked for which in between.
- `RecordsAreListed`, `StaysOnRecord`: a letter's file and the folders agree, so that it is removed with
  its last folder and not before.
- `LeavesIfMarked`: a letter leaves a folder only if a mailer of the owner's shows it there as marked.
- `ShowsNewMail`: under the contract a mailer in use shows all of "new", at the right index.
- `ReachesAll` is what the help of the mail command says, and is violated.
- What the code does that may surprise, and is in the model: "d 1" twice leaves two `index_cmd`
  handlers; `unread_delete` prints 'n' as its default and takes 'y'; after `incoming_post` its indexes
  are stale, so that it marks another letter than it asked about; `next_folder` prompts again and
  switches anyway; a letter whose addressees are all rejected keeps its file for ever.
- Abstracted: a letter is its date, and dates are in the order of writing; options are nondeterministic
  at each use; texts, subjects and menus are left out, and a user in a menu counts as being at the index.
  Left out: remote mail, groups and aliases, saving into "new", the deletion of a user.
- *Bounds.* Two users, of whom one forwards to the other, two mailers, two letters, up to two addressees,
  three letters in "new" and one in a saved folder, two prompts; one user's folders are looked into.
  That is enough for mail to come in between a mark and a quit, for one letter in two folders of one
  user, and for two mailers of one user. 363,476 states.
- `CHECK_DEADLOCK FALSE`: all letters may be written and nobody be at a mailer.

### Logins

`Logins.tla` models `connect.c` with the parts of `master.c`, `interactive.c`, `autosave.c`, `encre.c` and
`sefun.c` it calls, over the efuns as they are. A handler that a line or a call-out starts runs to its
end and is an action, named as in the code (`InputName`, `ConfirmPassword`, `InputCre`, `eventTimeout`,
`save_player`, ...). Three histories stand beside the state and no action looks at them: `author`, the
login whose answers a body holds; `written`, the same of a file; `missed`, that a login's body could not
be loaded. `Restart` is a stop or a crash: player files remain, all else is new.

- `OneDriver`: no two connections are for one body. `find_player` finds nobody, so that a second login of
  a name in play does not get to `eventReEnterGame` or `ConfirmReconnect`, which are dead code: it finds
  the body that is in play, destructs it, and both connections close.
- `UserExists`: every open connection is for a login or a body that exists, although `load_object` finds
  destructed bodies (`ObjectManager`) and `exec` would enter one (`Sessions`).
- `AlwaysAsked`: whoever is at a login is waiting at a prompt. It needs its exceptions: a handler that
  fails has lost its prompt, and its connection is never asked again. That is so for a name whose body
  was destructed since the start, and for one whose body does not load: `player_object` passes the error
  on, and where it found nothing, `ConfirmPassword` goes on and `eventCompleteChar` fails many prompts later.
- `OwnAnswers`: of two who create a character of one name at the same time neither plays with the answers
  of the other, and neither's file has them while he is a player. This is close: both logins hold the
  same body, and `eventCompleteChar` puts the second's answers into it, in play or not, before `exec` is
  asked. `SetPassword`'s gate lets that pass: `valid_apply` takes the objects on the call stack, which are
  the body, whose privilege is its name and SECURE, and the login, whose is SECURE; then it saves the body.
  What makes up for it is that the refused login destructs the body as well, so that the one who is
  in play with the wrong answers is in play no longer. The file keeps them, for the next login of that name.
- Why `OwnAnswers` says "while he is a player": he may be promoted while a second login is still asked for
  a password for the same new name. That login then loads the other body, the creators', which nobody is
  in; completing it enters that body and writes over the file of the one who plays on in the players'.
  TLC shows it when the condition is dropped.
- `StaysCreator`: no late save of an old body, by call-out, `quit` or completion, undoes a promotion.
- `LoginsEnd`: a login that has handed over its connection is destructed, unless the call-out thread died.
- What the code does that may surprise, and is in the model: `remove_call_out` is a stub, so each
  destructed login leaves its `eventTimeout` behind, which throws and ends the call-out thread; an
  `eventTimeout` that comes first destructs the body that is in play; clients that hang up leave a body
  that counts as interactive, and goes on counting for `SAME_IP_MAX`.
- `SAME_IP_MAX`: `users()` is the mudlib's (`sefun.c`), which keeps the objects that are in a room, so that
  logins and destructed bodies do not count (`InGame`). `query_ip_number` is a stub: all have one address.
  An address that is exempt is the case `SameIpMax = 0`.
- Abstracted: the questions between the password and `InputCre` are one prompt; the two call-outs that
  save a body are one flag; a 10 s call-out that finds its login gone is left out. Left out: guests,
  rescue, help pages and class selection. `eventCheckPending`'s lists change no file: `encre.c` tests
  `!nom` and so never adds to the one, and `decre.c`, which `find_player` finds nobody for, adds the name
  to the other again and returns.
- *Bounds.* Three connections for one name, with a limit of two in play. Three are enough to create a
  character, promote it, and have two others log in or create between; the limit is reached with a
  creator in play, one in play in the body left from before his promotion, and a third who is turned away.
  246,879 states. With four connections the safety properties hold as well, in 12,860,264 states, which
  takes too long for a run.
- *Fairness.* Weak for `eventCheckPending` and `eventCre`, because the call-out thread, if it lives, calls
  what is due (`EventuallyFires`). Nothing is assumed of clients.

## Findings

1. `sessions_player`: after two `exec()` calls in one call stack `this_player()` is the object in the
   middle (ThisPlayerEfun.java:103 against CHANGES.text:42).
2. `environments_init`: an `init()` that moves an object ends the walk of `move_object` early
   (MoveObjectEfun.java:111 against :93).
3. `mail_routes`: a letter to two users reaches the first only, because `present()` fails on the nobody
   that `find_player` found (folders.c:82 against verbs/common/mail.c:66).

Met while modelling, and in the models without a run of their own:

- A key's interest in reads is restored at TelnetChannelConnectionHandler.java:193, before the connection
  is read, not after, as the comment at :211 has it. `OneSignal` and `InOrder` hold in spite of it.
- A context's attributes outlive the call stack; ThreadContext.java:51 says they are reset at the
  beginning of each.
- `clone_object` in `create()` clones an object that has no master yet (src/README.md:23).
- mudconfig.c:557 tells users to reload and to quit and log back in; a body destructed since the start
  is still found by its name, and `InputPassword` fails on it.
- `encre.c` tests `!nom` where `!ob` is meant, and moves the file while the player's body plays on.

## Proofs

All are for every value of the constants, under the modules' named assumptions.

- **`CallOutsProofs`.** `TypeCorrect`; `LockCorrect` (`LockInv`: who is inside LPC code owns the lock, an
  entry is in hand just while the thread waits for the lock); `NothingIsLost` from `PlaceInv`, which
  numbers the entries; `OnePoll` from `SearchInv`, which needs `LockInv` because a second poll would
  need the thread to have been through the game lock; `HandlesAreFarApart` from `IdInv`, which says what
  the last MaxId handles are, counting back from the next: the property alone says nothing of the next
  handle and is not inductive; `SleepCorrect` (`NeverOversleeps`); and `CallOutsImplementService`, the
  refinement, if handles do not wrap (MaxCallOuts <= MaxId).
- **`SessionsProofs`.** `TypeCorrect` with `PlaceInv` (where a thread is tells what it has looked up, or
  a lookup could be applied to nothing); `AlwaysLinked`, `AlwaysOwnHandlers` and the action property
  `UserCloses` (which of the closed connections were closed by what) from `LinkInv`, which adds to the two that whoever has a connection has its listener and
  has it in its history: without the first a destruct need not close, without the second `connect()`
  could reuse the object.
  Of the callbacks: `RunsOnce` (`CallbackOnce`) and `NoneForgotten` (`CallbackWaits`), for
  SharedBodies = FALSE. `OwnerInv`: an object belongs to one connection, so that every lookup outside
  the game lock finds the handlers of the thread's own; `ListInv`: a thread's copy of the list holds what is
  installed or what it has taken; `RanInv`: a callback is in a list, or taken, or has run, once.
- **`ConnectionsProofs`.** `TypeCorrect`, `AlwaysOneSignal`, `AlwaysInOrder`, `NoWayOut`. `PlaceInv` says
  where each kind of thread can be, `LockInv` who owns which lock there. `OneSignal` speaks of registered
  open connections; `SignalInv` counts the signals of all, because a connection may be closed with a
  signal on its way. `OrderInv` says that what has been read is the shell's, but for the next chunk, in
  the hand of the monitor's owner; `InOrder` alone says nothing of that chunk.
- **`ObjectManagerProofs`.** `Invariant`, by `InitHolds` and `NextHolds`, one lemma per action.
  `MarksMatchStack` is not inductive: that a return finds the caller it expects needs `Shape` (which
  frame may be under which), that indices stay in range needs `Bounds`, and `Marks` is the property
  depth by depth over all naturals, so that pushing and popping are substitutions. `TypeCorrect` and
  `AlwaysMarksMatch` follow.
- **`ObjectTablesProofs`.** `FoundAlive`, `MastersAlive`; `DefinedOnce` and `FindIsLoad` for one spelling
  per file. `TInv` takes the tables to the stack: what a frame has found is defined, the instance a
  frame loads is the registered one or excused, what it compiles has no definition yet. It builds on the
  invariant of `ObjectManagerProofs`: without the marks two frames could define one file.
- **`EnvironmentsProofs`.** `TypeCorrect`, `AlwaysAgree`, `NeverTwice`. `PlaceInv` adds to
  `InventoriesAgree` that the inventory an object will have after its destruct is still empty;
  `StackInv` that what a walk has met is what lies before its cursor, unless the walk is stale.
- **`LoginsProofs`.** `TypeCorrect`, `OneDriverEver`, `UserExistsEver`, `AskedUnlessDestructed`,
  `AnswersAreOwn`, `CreatorsStay`. `LoginInv` says what a login has been told at each prompt and whose it
  is; `AuthorInv` that who wrote answers into a body plays it as long as it exists, so that nobody who
  comes later can enter it; `FileInv` the same of a player's file and the players' body. `OwnAnswers` alone
  says nothing of a body, or a file, that nobody is playing, and those are the ones that the next login
  finds. `FileStep` keeps the file's part apart: `FileStepIs` for a save, `FileStepOwn` for the rest.
- **`GameLock`** is what all three of `CallOuts`, `Connections` and `Sessions` assume of the lock that
  `InContext.execute` takes: one thread runs LPC code, and the next starts when none does. In each,
  `OneAtATime` shows that the specification implements it, with `running` mapped to the threads that are in
  LPC code: in an efun in the middle of it (`CallOuts`), waiting for a connection's monitor (`Connections`),
  in any of the four kinds of calls (`Sessions`). The argument is the same: the set of these threads is
  the variable `game`, and by `LockSteps` a step leaves it alone or one thread enters or leaves. For that
  the lock must never stay with a thread that has left LPC code (`LockInv`, `OwnerRunsEver`, `GameInv`),
  which is more than mutual exclusion. These refinements are proved and are no run's property.
- **`MailProofs`.** `TypeCorrect`, `CacheCorrect`, `RecordsCorrect`, `NewMailShown`, and the action
  properties `RecordsStay` and `OnlyMarkedLeft`, from `Inductive`. The daemons come first: `GoodPosts` are
  the states of the mail in which memory and files agree and records are listed, and every operation on
  them leads to another. The loops of `delete_posts` and `send_post` take any number of turns; the
  library's induction takes an operator, which the provers cannot instantiate, so `Induction` is derived
  here for *sets* of numbers from the least element of a set, and what a turn keeps is a set too
  (`Reached`, `Dropped`). `DropTurn` and `KeepTurn` say what `delete_posts` has done after the turns down to an
  index: the letters kept stand, each once, for the unmarked indexes from there on, and a record was
  dropped only for a marked one. `Grows` is what delivery and saving do, which take nothing; only
  `save_box` does not grow (`PostStep`).
  Of the mailers `IInv` adds what none of the properties says: `Track`, that a mailer which still waits for
  a line either shows its folder's letters, index by index, or fewer of them. It is why an index is safe:
  `delete_posts` refuses a caller who knows of another number of letters. All handlers that wait for a
  user are one mailer's (`OneMailer`), so that a line which replaces a folder leaves no other mailer of
  his behind that could still quit; a letter that is being written is in no folder yet, so that its new
  record cannot replace an old one (`Drafts`, `Known`); and whoever is at a letter's last question has a
  letter (`Writes`).
  Assumed of the constants is only that 0 (`None`) is no user, folder or letter and "new" no saved folder.

Only model-checked: `EventuallyFires`, `InputArrives` and `LoginsEnd`, since liveness is out of the
prover's reach.

## Plan

Written, in order of importance: `CallOuts`, `Connections`, `Sessions`, `ObjectManager`, `Environments`,
`PostOffice` and `Mail`, `Logins`. To come:

1. `Equipment`: bodies, limbs and what is worn where (`body.c`). A limb may be severed by a call-out in
   the middle of `eventReceiveDamage`; `RemoveLimb` walks the worn items with `while(i = sizeof(...))` and
   indexes past the end, which throws and leaves a limb both present and missing; restored equipment is
   put on by a call-out that may find another body.
2. `Sockets`: the table of `SocketManager`, open and close with a callback in between, and the
   resolver's thread. One answer per token, never before the token was returned.
3. `Startup`: `Engine`, `PluginController`, `PluginResolver`; an abstract specification of the phases
   (`Phases`) and plugins that fail in each.
4. `Actions`: the action set, `command()` inside an action, the verb attribute.
5. `ExecutionContext`: `ThreadContext`, `CallStack` and `ExecutionTimeCheck` nested, with exceptions;
   abstract specification: a stack.
6. `TelnetStream`, pure operators: bytes, cut into reads anywhere, become the same lines and commands;
   checked against a definition on the whole stream.
7. `ObjectId.normalise`, `findMethod` and `present`/`deep_inventory` as pure operators.
8. In `Connections`: the error counters of the two loops, `users()`.

Composition: `Sessions` takes one reader per connection from `Connections`; `Logins` takes from `Sessions`
that a connection has one user and from `CallOuts` that what is due is called. What the components with
threads share, the game lock, is `GameLock`.

## Not modelled

The parser and preprocessor and the bytecode compiler translate text and keep no state; to state what is
right of them would need the semantics of both languages. Most of the mudlib is rooms, monsters, verbs,
races, skills and editors: a command or a heart beat changes one object under the game lock, and there
is no protocol to check. Combat is numbers and chances. Intermud (imc2, i3) is over the LPC sockets, and
comes after them. Values, types and pure efuns are data structures under the game lock. Persistence is
sequential text I/O. Configuration is read once. The other mudlibs (`lib.vision`, `site.media`), `stout`
and JavaCC are content or third-party. PROJECT.json has a note for each.

## Running

    tlc -workers 2 -config callouts.cfg MCCallOuts
    tlapm CallOutsProofs.tla

PROJECT.json names the module and configuration of every run.
