# japokwm in TLA+

A verification project for japokwm, a dynamic tiling Wayland compositor written
in C on wlroots and configured in Lua. The modules model the parts whose state
is spread over several fields that many handlers have to keep in agreement. TLC
checks them on small instances; TLAPS proves the safety properties of all but one of the
runs for every value of the constants. Paths below are relative to the root of the repository (`src/` here is its
source directory, `include/` its headers, `man/` its manual).

- [The system](#the-system)
- [Modules and code](#modules-and-code)
- [Runs](#runs)
- [Proofs](#proofs)
- [What the code does differently from what it says](#what-the-code-does-differently-from-what-it-says)
- [Not modelled](#not-modelled)
- [Plan](#plan)

## The system

One event loop (`libuv` with the Wayland event loop embedded, `src/server.c`)
calls handlers: for Wayland clients, input devices, outputs, timers, IPC sockets
and asynchronous commands. A handler runs to its end before the next starts, so
a handler is one action of a model. Handlers call Lua functions of the user's
configuration, and those call back into C through `src/lib/*`. The only real
concurrency is in `Action.exec`, which starts detached threads.

| component | state | operations | what makes it correct |
|---|---|---|---|
| Monitors and tags (`monitor.c`, `tagset.c`, `tag.c`, `lib/lib_tag.c`, `lib/lib_action.c`) | `server.mons`, `selected_monitor`, `previous_tag`; `monitor->tag_id`; per tag `m`, `current_m`, `tags`, `prev_tags` | view, view_or_tag, toggle, set tags, swap, focus monitor, reload, plug and unplug | the two directions of the link between monitor and tag agree; nothing refers to a lost monitor; viewing shows the whole set; toggling returns |
| Windows of the tags (`container.c`, `tag.c`, `list_sets/`, `tile/tileUtils.c`, `xdg_shell.c`) | per tag `con_set`, `visible_con_set`, `focus_set`, `visible_focus_set`; per container `tag_id`, hidden, floating, `is_on_tile`; the surface with the keyboard | create, map, unmap, destroy, focus, move to a tag, swap tags, reorder, zoom, hide, float, drag | the lists of all tags hold the same windows; orders that are written back do not get lost; the keyboard is where the focus is |
| Scratchpad (`scratchpad.c`) | `server.scratchpad`, `con->on_scratchpad` | move to, show, hide | list and mark agree; asking for a window shows it or puts it away |
| Key bindings and combos (`keybinding.c`, `keyboard.c`, `options.c`, `server.c`) | the sorted bindings, the pending chords and their timer, named combos, the key that repeats | press, release, repeat, click, timeout, bind, reload | every binding is found; pending chords cannot get stuck; the right command of two that match runs |
| Asynchronous commands (`lib/lib_action.c`, `server.c`) | one pointer, one libuv handle, the data of each call | exec, the thread, the handler | each result is delivered once and no freed memory is used |
| Layouts (`layout.c`, `tag.c`, `tile/tileUtils.c`, `ring_buffer.c`, `lib/lib_layout.c`) | per tag the loaded layouts and the names of the current and the previous one; per layout `n_master`, `current_max_area`, the data; the ring of default layouts | load, toggle, rotate the ring, change the master area and the data, arrange, reload | the layout that was asked for has the focus; every window that fits is shown, at a place of its own |
| Bit sets (`bitset/`, `lib/lib_bitset.c`) | a hash table, `low` and `high`; two temporaries of the server | assign, operators, copy, swap, reverse, the methods of scripts | the bounds hold all members; every call gives what a set of numbers would |
| IPC server and `japokmsg` (`ipc/`, `command/`, `japokmsg/`) | clients, what is left to read, write buffers, subscriptions; the process at the other end | accept, read, dispatch, write, disconnect; send, wait, read, time out | a message is received whole and answered once; a client that is gone is not used; every command ends |
| Layer shell and bars (`layer_shell.c`, `root.c`) | four lists of layer surfaces, the usable area, bars shown per tag | create, commit, unmap, close, arrange layers, toggle bars | exclusive surfaces do not overlap and leave the area of windows; the keyboard comes back from launchers |
| Cursor (`cursor.c`) | the grab, the lock of sloppy focus, pointer constraints | motion, button, grab, move, resize | a destroyed window is no longer dragged; pointer events go to what is shown; one constraint is in force |
| Seats and devices (`seat.c`, `input_manager.c`, `keyboard.c`) | the devices, the keyboard of the seat | add, remove, take turns | keys go to the focused surface |
| Geometry of windows (`container.c`, `tile/tileUtils.c`, `cursor.c`) | per window its place or box, border, hidden edges, ratio; the scene graph | open, close, tile, float, scripts, bars, move and resize | what is drawn is what the geometry says; tiled windows do not overlap by more than a pixel, floating ones can be reached |
| Configuration and scripts (`utils/parseConfigUtils.c`, `options.c`, `lib/lib_options.c`, `event_handler.c`, `translationLayer.c`, `rules/`) | the options and their copies in the layouts, the tags a config names, listeners, rules, `opt`, the flag that prohibits reloading, the calls in progress | load, fall back, reload, bind, listen, emit, apply rules, set options | the configuration is that of one file; nothing freed is used; every call returns |
| The rest | | popups, subsurfaces, tablets, rendering, Lua conversions | |

How they interact:

- **Shared lists.** `DO_ACTION_LOCALLY` and `DO_ACTION_GLOBALLY`
  (`include/tag.h`) apply an operation to the lists of the selected tag or of all
  tags. Which of the two a handler uses decides which lists go stale.
- **Filtered copies.** `visible_con_set` and `visible_focus_set` are filtered
  from `con_set` and `focus_set`; commands reorder the copy and write its order
  back (`sub_list_write_to_parent_list`). When a copy is rebuilt and when written
  back is up to each handler.
- **Asserted links.** `monitor_get_active_tag` asserts that `monitor->tag_id` and
  `tag->m` agree; most handlers call it.
- **Commands within input handling.** A key press runs a Lua command that may
  change the bindings, the named combos and the pending chords.
- **Scripts within handlers.** A rule, a listener, a layout file or the config
  file runs within a C function and may call the one that is running, or take
  away what it uses.
- **Everybody moves the focus.** Tags, launchers, the pointer and the keyboards
  all end in `focus_client`, `cursor_constrain` or `cursor_rebase`.
- **Threads and the loop.** `_call` runs in a thread and hands its result over in
  `server.async_handler.data`.

What is hard, and where the properties aim: long sequences of legal commands
that leave two fields in disagreement; events that come between two halves of a
command (a window that closes while it is dragged or on the scratchpad, an output
that is lost while its tags are shown elsewhere); timers against key presses; messages
that arrive in pieces or at a client that is gone; scripts that fail or reload
within other scripts; a cached box, focus or bound that is used after what it was
derived from has changed; the threads. `PROJECT.json` lists the hazards, each with its line and the properties
that would catch it.

## Modules and code

| module | models | for |
|---|---|---|
| `MonitorTags` | monitors and tags | TLC and TLAPS |
| `Keybindings` | the sorted list of bindings and its searches: pure operators | both |
| `KeybindingsProofs` | lemmas about `Keybindings`, recursive functions and folds | TLAPS |
| `KeyCombo` | presses, the timer, repeat, named combos, reload; extends `Keybindings` | both |
| `KeyComboProofs` | theorems about `KeyCombo` | TLAPS |
| `DeferredCalls` | what the manual promises of `Action.exec`: the abstract specification | both |
| `AsyncExec` | threads, slot, handle and handler; implements `DeferredCalls` | both |
| `WindowLists` | the list operations: pure operators | both |
| `Containers` | the windows of one output and the scratchpad; extends `WindowLists` | both |
| `ContainersProofs` | theorems about `WindowLists` and `Containers` | TLAPS |
| `Tiling` | how a layout divides the windows among its places: pure operators | both |
| `Layouts` | loaded layouts, their settings and the ring; extends `Tiling` | both |
| `LayoutsProofs` | theorems about `Tiling` and `Layouts` | TLAPS |
| `IpcPromise` | what the socket promises its clients: the abstract specification | both |
| `IpcServer` | the handlers of the server and the socket buffers | both |
| `Japokmsg` | `IpcServer` with `japokmsg` and bars at the other ends; implements `IpcPromise` | both |
| `JapokmsgProofs` | theorems about `Japokmsg`, with the refinement | TLAPS |
| `PlainSets` | what the bit sets promise: sets of numbers, changed at once | both |
| `BitSets` | the hash tables, their bounds, the loops, the temporaries; implements `PlainSets` | both |
| `ServerProofs` | theorems about `MonitorTags`, `BitSets` and `AsyncExec`, with the refinement of `DeferredCalls` | TLAPS |
| `Focus` | what the layer shell, the pointer and the seat share: focus, keyboard, constraint in force; extends `WindowLists` | TLC |
| `LayerShell` | layer surfaces, bars and the area of windows; extends `Focus` | TLC |
| `Pointer` | motions, sloppy focus, constraints, devices; extends `LayerShell` | TLC |
| `Shell` | the three composed | TLC |
| `Configuration` | the config file, options, listeners, rules, calls within calls; extends `Keybindings` | both |
| `ConfigurationProofs` | theorems about `Configuration` | TLAPS |
| `SinglePrecision` | the C type `float`: pure operators | both |
| `Frames` | the boxes, borders and edges of windows; extends `SinglePrecision` | both |
| `FramesProofs` | theorems about `Frames`, with the error of its floats | TLAPS |
| `MC*` | small values for the constants, symmetry | TLC |

`map` in `PROJECT.json` gives the lines that each definition stands for.
Definitions that begin with a comment "Mutant:" are deliberate mistakes, used by
no specification: each property is checked to fail when the definition that
follows is replaced by its mutant.

**MonitorTags.** A variable per field. A command is an action; the functions that
all of them go through (`push_tagset`, `focus_tagset`,
`monitor_set_selected_tag`, `tagset_set_tags`) are operators that give the new
value of one field. A set of tags is a TLA+ set. One detail of its representation
is kept: the bit set is a hash table whose keys may hold *false*, and
`tagset_tags_disconnect` tests the pointer it gets from the table and not the
value, so `false_keys` is a variable. The windows matter by the tag they are on,
since an empty tag counts as free for a new output. After the last output is
unplugged `server.selected_monitor` points to freed memory; reading it then is
the action `InputWithoutMonitor`, which ends the run.

**Keybindings and KeyCombo.** A text such as `mod-a S-b` is a sequence of chords,
each a sequence of keys, and keys are numbers in the order of `strcmp`; the
module explains why comparing these is comparing the texts. `sort_keybinding_element`
splits at the dashes only, so the last key of a chord and the first key of the
next stay together; `SortElement` does the same. `bsearch` and `lower_bound` are
recursive functions that step through the list as the C code does, because what
they miss depends on it. `ran`, the command of the last step, is there
for the properties.

**AsyncExec.** The steps of a thread (run the command, store the result, wake the
loop) interleave with the steps of the handler (take the pointer, call, free).
`uv_async_send` marks the handle, the loop clears the mark before it calls the
handler. A freed result that is used may belong to any other call by then.
`overlapped` is a history variable: a script has started a command while another
result was outstanding. `DeferredCalls` promises what the manual says up to that
point.

**Containers.** The state is one record, `desk`, because a handler of this part is
a chain of functions each of which reads what the one before has written
(`arrange`, `tag_focus_most_recent_container`, `container_set_tag_id`): every C
function is an operator from a desk to the next one, a handler composes them in
the order of the code. Dereferencing a null pointer or a destroyed container sets
`desk.fault`, after which nothing happens. An index that is not initialised
(`focus_on_stack`) is a choice over all indices that the list allows.
`desk.setup` is chosen at the start: which groups of commands the user has keys
for, how many windows the layout has a place for, how many may exist. One output
is modelled; the moves of tags between outputs are the subject of `MonitorTags`.
`visible_focus_set` is a variable for the selected tag only, since a function
that uses that of another tag rebuilds it first.

**Tiling and Layouts.** A tag keeps "its layout" twice: `current_layout`, the
name that was asked for, and the front of `loaded_layouts`, which everything
reads. `tag_load_layout` appends a layout, runs its file and loads the layouts
that it links; `focus_layout` moves the one at the returned position to the
front; every `arrange` calls it for `current_layout`. `LoadLayout`, `FocusLayout`
and `ArrangeTag` are these three. A layout file is what running it leaves behind
(lengths of its data, links, `n_area`). A file that sets `n_area` calls `arrange`
while it is being loaded: that moves layouts in the list under the position that
the loader remembers, and `LoadLayout` follows it. The counters `n_area`,
`n_master_abs` and `n_tiled` are recomputed from the data and the number of
windows at every `arrange`, so they are operators of `Tiling` and not variables;
what does persist is the table that `lua_layout_ref` refers to (`places`), which
`set_layout_ref` leaves alone for 0 areas. `spots` is what `arrange_containers`
gave out last. A position outside of a list or table ends the run with a value of
`fault` that says which. `setup` is chosen at the start: the groups of commands,
the layout files, the config files that a reload may find, and how many windows
there may be. One output is modelled. Which windows are tiled is the subject of
`Containers`; here they are a number.

**IpcServer, Japokmsg and IpcPromise.** `meson.build:87-88` builds both
`ipc-server.c` and `ipc.c`. Each has a static `ipc_client_list` (`ipc-server.c:31`,
`ipc.c:21`), both define `ipc_init`, `ipc_user_sockaddr`, `ipc_handle_connection`
and `ipc_client_handle_writable`, and the `ipc_handle_connection` of `ipc.c` accepts
from `server.ipc_socket` (`ipc.c:69`), which stays `IPC_SOCKET_DISCONNECTED`
(`server.c:279`), while `ipc-server.c` has a socket of its own. Which of two
definitions is used, or whether they are refused, is up to the linker. The model is the
one server that the two files are meant to be, with the socket, the list and
`ipc_handle_connection` of `ipc-server.c`; what goes wrong because there are two lists,
such as a client that is looked up in the one it is not in, it does not show.

A message is a header and a payload, two
parts that a socket may deliver one by one; a handler of the event loop is an
action, and so is every step of a `japokmsg`. The server reads header and payload
in one go each, as `ipc_recv_message` does, and the write buffer holds whole parts
up to `BufferLimit`. A client that is disconnected and freed by a handler that
uses it afterwards leaves the status "undefined". A client slot is an address,
used again after it was freed. `IpcPromise` has neither parts nor buffers: requests
are handled in order and once, answers and events are received whole, in order
and once, and the only failure is that the server ends a connection. A `japokmsg`
that reads the end of the stream between the two parts of an answer spins.

**BitSets and PlainSets.** A call is a program of loops, each of which assigns one
bit of its destination a turn, in the order of the numbers or, over a hash table, in
any; so the bounds that a loop has read meet what its own turns do to them.
`bytes` is split into the keys and those that hold true. The temporaries
`server.tmp_bitset` and `local_tmp_bitset` are sets like others. `PlainSets` does
the call at once, on sets of numbers; `was` holds the sets before the call, since
nobody sees them in between.

**Focus, LayerShell, Pointer and Shell.** One record again, for the reason given
under Containers. `Focus` has what all three parts call (`focus_container`,
`focus_client`, `cursor_constrain`, `cursor_rebase`, `focus_tagset`); windows stay
tiled in fixed boxes and tags show themselves only, because `Containers` and
`MonitorTags` are about that. `LayerShell` follows the two rounds of
`arrange_layers`, exclusive surfaces first; a surface that gets no box is
destroyed in the middle of the round, which arranges the monitor anew within it.
`LayerShell` is recursive there, like the code. `Pointer` has the motion handlers,
the requests of clients for constraints, their regions and commits, and the
devices. wlroots is external: what it keeps of constraints, and which surface is
at a point.

**Configuration.** One Lua interpreter runs everything, so there is a stack of
calls, and the action `Step` executes the next statement of the call on top; a C
function that calls a script is itself a call on that stack, with the steps that
it takes after the script has returned. A script is a sequence of statements, a
name and a number each. Options that are only set, reset and copied are one
number, the gap; `rules`, `keys`, the modifier and the list of names are kept
apart, because something refers to them. `Statements` says what a script may say:
the numbers of rules, keys, names, layouts and functions are of those that the setup has. A pointer into what has been freed ends
the run with a `fault` that names it. `AddKeybinding` is that of `Keybindings`.
`tag_update_names` is the step `Names`, which goes on with the next tag after the
layout of the one before has been looked up and its file has run.

**Frames.** Every window has its place in ten-thousandths or its box in pixels, and
`drawn`, what `container_update_size` gave to the scene graph last. Handlers that
change a geometry and do not get there leave `drawn` behind. Lengths and positions
are computed in single precision, as `get_absolute_box` and
`container_set_tiled_geom` do: `SinglePrecision` has a float as a number of 24 bits
over a power of two and rounds every quotient, product and sum to the nearest float,
the even one of two; a conversion to `int` truncates toward zero. No product is fused with
the sum that follows, as on x86-64 without further options. Half of a
gap and the middle of a box are integer divisions, in the code too.

## Runs

A property whose name ends in "Sound" is a conjunction of named parts that are
defined next to it; the type invariant of the module is one of them. Deadlock is
checked in `keys`, `shell`, `config`, `frames` and `bitsets`, where something can
always happen. `CHECK_DEADLOCK FALSE` is set in the others, because the program or
its part really stops: an assertion, a freed pointer or a null pointer ends the
process (`tags`, `windows`, `layouts`, `ipc`), and when all commands have ended
nothing is left to do (`exec`).

| run | instance | properties | shows |
|---|---|---|---|
| `tags` | 3 outputs (symmetric), tags 0 and 1, 1 window | `LinksSound` (`LinksAgree`, `NoDanglingMonitor`), `OthersKeepTheirTag`, `ToggleReturns`, `ViewShowsWholeSet` | the links survive every order of commands and hot-plugging |
| `keys` | 2 keys, 1 button, chains up to 3 chords, 2 configurations and none | `BindingsSound` (`OrderedLists`, `EveryBindingIsFound`), `TimersSound` (`PendingIsTimed`, `OnlyHeldKeysRepeat`), `CompleteChainRuns`, `WaitingRunsTheShorter`, `PendingEnds` | presses, repeats, timeouts and reloads in every order run the right command |
| `exec` | 3 commands, 2 with a function | `HandlerSound` (`HandlerHasData`, `NoUseAfterFree`), `LastResultDelivered`, `PromiseKept` | the promise is kept until commands overlap, the last result is delivered even then |
| `windows` | 2 tags; 2 windows for most groups of commands, 1 for tag sets with the scratchpad, 3 for the orders | `ListsSound` (`ListsAgree`, `ShownInOrder`), `FocusSound` (`FocusStackIsWhatIsHere`, `KeyboardAtFocus`), `ScratchpadAgrees`, `CommandsUndo` (`ViewAndBackKeepsFocus`, `HiddenCycleReturns`), `CommandsDeliver` (`ZoomMakesMaster`, `ShowScratchpadShows`) | the lists, the focus, the keyboard and the scratchpad agree after every handler |
| `layouts` | 3 layouts that link each other, 2 tags; up to 4 windows where the settings change, 2 config files | `LayoutsSound` (`FocusedIsCurrent`, `LinkedAreLoaded`, `NoPlaceIsMissing`), `PreviousIsSecond`, `PlacesSound` (`OwnPlaces`, `ShowsAsManyAsFit`), `RingStaysInside` | the layout asked for has the focus after every load, look, view and reload; the places are enough and distinct; the ring stays in its list |
| `ipc` | 1 `japokmsg`, 1 bar, 6 kinds of requests, buffers of 4 parts, sockets of 1 | `StreamSound` (`StreamIsWhole`, `RequestsAreWhole`, `ConnectionsAgree`), `PromiseKept`, `EveryCommandEnds` | whatever arrives in pieces and whoever hangs up, clients receive what `IpcPromise` says, and no command waits for ever |
| `bitsets` | 2 sets and 2 temporaries, 3 bits, bytes of 2 bits and words of 3 | `BoundsSound` (`RangeIsTight`), `EqualsIsExact`, `CallsAreExact` | the bounds are never too narrow, and every call implements `PlainSets` |
| `shell` | 2 monitors of 4 by 3, 3 tags, 3 windows, 2 layer surfaces, 2 constraints, 2 keyboards | `RoomIsShared` (`RootLeavesBars`, `BarsUncovered`), `ConstraintsSound` (`ConstraintsAgree`), `PointerFocusIsShown`, `KeyboardComesBack`, `SloppyFollows` | bars, launchers, windows, pointer and devices leave focus, keyboard, pointer and room in agreement |
| `config` | 2 tags, 2 layouts, 3 scripts, up to 4 config files in 4 setups | `ConfigurationSound` (`ConfigurationIsWhole`, `OneConfigAtATime`), `CopiesAgree`, `PointersSound` (`NothingFreedIsUsed`), `EveryCallReturns` | what scripts do to each other within calls leaves the configuration of one file, and every call returns |
| `frames` | 1 or 2 windows, a screen of 120 by 60 on both sides of the origin, a bar at the top or on the left | `SceneAgrees`, `GeometrySound` (`FloatingReachable`), `TiledApart`, `DragIsRigid` | boxes, borders and edges follow every script, bar and drag |
| `tags_abort` | as `tags`, no window | `NeverAborts` is violated | finding |
| `exec_lost` | 2 commands | `EveryResultDelivered` is violated | finding |

**Bounds.** *tags*: with three outputs and two tags there are more outputs than
tags, so a new output meets tags that are taken, that are shown elsewhere and
that are free; a link involves two monitors, and the third is one that must keep
its tag. *keys*: four bindings are the first length at which both binary searches
take two turns in either direction, three chords give a chain that is the
beginning of another and is continued itself. *exec*: two results that collide and a command
without a function that overwrites the slot too. *windows*: the properties relate
pairs of windows, and a list of three is the first whose order is not given by
its ends. All commands at once do not fit, so they meet in groups that touch the
same fields; `View`, `ArrangeAgain` and the life of windows are in every group.
`ShownSets` are the empty set and both tags. *layouts*: three layouts are the
first list in which the second is neither the first nor the last; the data has up
to three areas and three masters and there are up to four windows, so a layout is
not filled, exactly filled and over-full, with fewer and with more masters than
windows. `AreaLimits` are none, 0, 1 and 2. The commands meet in groups that touch
the same fields (which layout has the focus; the ring; the places; files that
arrange, with windows). *ipc*: a buffer of four parts overflows with the third
message, so answers and events both meet a full one; a socket of one part
separates every header from its payload. The server treats its clients alike but for the
events, which one causes and another receives. *bitsets*: a bit within a byte that is
neither its first, the first, and one behind it; an operator has two operands, and
a result that is one of them. Operations meet in groups, each with one that makes
sets of any shape; words of three bits are reversed around a middle. *shell*: the
misfit, a bar at each edge, two launchers in layers above each other; one window
beside another, one on the other monitor, a tag without windows; a constraint that
locks and one that confines and is meant for one use. Surfaces that want exclusive
room do not misfit here (see below). *config*: a script of two statements that
fails in its second, or calls what it is called by; no more than `MaxListeners`
listeners when a command is given, as each reload adds some. *frames*: the places
2500 to 5300 and 5300 to 10000, which overlap by a pixel on an area of 100 (below);
areas that begin at a negative and at a positive position, where truncation goes in different
directions; boxes that lie outside of
the area or are smaller than the smallest; a bar that takes the room of a floating
window. The screen is small because TLC's integers have 32 bits, and the exact sums
and products before rounding are to fit. `MaxTag`, `EditedTags`, `MaxBindings`, `ShownSets`, `NewPositions`,
`AreaLimits`, `SocketSize`, `MaxUnread`, `Bits`, `Spots`, `Boxes`, `Ratios`,
`MaxListeners`, `room` of a setup and "each job happens once" are the bounds, named
where they are declared.

**Fairness.** `keys`: weak fairness of `Timeout`, because the event loop serves a
timer that is due; presses, releases and repeats are not fair, and
`PendingEnds` holds although each of them arms the timer again, because an armed
timer stays enabled until it fires. That the user might press keys so fast that
the timer never fires is excluded by it; the delay is a matter of real time.
`exec`: weak fairness of the event loop, which polls the descriptor of the
handle, and of `Send`, because a thread that has stored its result goes on. A
command need not end, so `Store` is not fair. `ipc`: weak fairness of the handlers of
the server, for each client, since the event loop polls all descriptors, of the
socket, and of the steps of a `japokmsg` that has started. Bars, users and the time-out
of three seconds are not fair: a bar may never read. `config`: weak fairness of
`Step` alone, because an interpreter goes on; no command need ever be given.
`tags`, `windows`, `layouts`, `bitsets`, `shell` and `frames` have no
liveness property: their handlers end.

## Proofs

All theorems hold for every value of the constants under the named assumptions of
the modules. Most of these say what a constant is: `MaxTag` a natural number, the
null values no element of their set, `Requests` requests, `Messengers` some of the
clients, `ShownSets` sets of tags, `Places` boxes for every number of windows,
`Ratios` floats that are not negative. Five say more, because the
property needs it:

- `TextsAssumption` (`KeyCombo`): a chord is a non-empty list of keys and buttons, and
  what a configuration binds is a list of chords. The parser of the Lua call makes
  nothing else.
- `NamesAssumption` (`Layouts`): there are finitely many layouts. Each is a directory with a
  file; without it loading a layout with its links need not end.
- `PlacesFit` (`Frames`, of `TiledAlwaysApart` only): the places of the layout lie
  apart from each other and within the area, but for `SLACK`, and the gap leaves something of
  each. `SLACK` is two ten-thousandths: fractions of a layout are truncated to
  ten-thousandths, once in `lua_unbox_layout_geom` and once for the master area. The
  places of monocle overlap, and its windows then do.
- `AreasFit` (likewise): the area is at most 4096 pixels wide and high (`LONGEST`) and
  begins at most 32768 from the origin (`FARTHEST`). On much larger ones single
  precision is off by more than a pixel.
- `AtFront` and `KeysApart` (`ContainersProofs`): explained there.

**ServerProofs.** Three components that keep their state in `struct server` and share
none of it; they have one module for their proofs, which is why the specifications of two of them
are called `BitSetsSpec` and `AsyncSpec`.

*MonitorTags.* `LinksAgree` is inductive only together with the types,
with the absence of dangling monitors and with the fact that no output is plugged
in twice (`PluggedOnce`: the list of monitors has no duplicates, without which
removing one would leave it plugged): `IInv` is their conjunction.
`monitor_set_selected_tag` is what disturbs the links; lemmas state what its two
cases give. From `IInv` follow `TypeCorrect`, `LinksAlwaysAgree`, `NoneDangles`,
and the action properties `OthersKeep`, `WholeSetShown` and `ToggleTagReturns`,
which need it in the state before the step. `LinksAlwaysSound` is the first three
together, as the run checks them.

*BitSets.* The invariant `BitSetsInv` says of every set that its members have
entries, that no member is outside of the bounds, that the bounds are in order, and
that a set with members has one at `low`, and at `high` or at `low` only (`Tight`). Without
the last part a set could be equal to another and differ in its bounds; without
the order of the bounds the search of `bitset_set_new_low` would be empty. It
also types what is left of the running call, since a loop reads the bounds of the sets that it
names. `SearchesFindBounds` and `AssignedKeepsBounds` are the argument: one assignment
keeps `Tight`, wherever the bit is. The rest is that every call is a program of
loops over sets that exist (`ProgramsAreTyped`). `BoundsAlwaysSound` and
`EqualityIsExact` follow, for any number of sets and bits and any byte and word.

*AsyncExec.* `HandlerAlwaysHasData` and `AsyncTypeCorrect` need that a thread
that has stored its result finds the slot filled (`SlotFilled`). `FreedNeverUsed`
needs what is true until the first overlap (`OneAtATime`): at most one job is
between its start and its call, and the slot, the pending mark and the handler
belong to it. From the same invariant, `PromiseIsKept` shows that the initial
states are initial states of `DeferredCalls` and every step is a step of it or a
stutter: the safety part of `PromiseKept`. `HandlerAlwaysSound` joins the three
invariants.

**KeybindingsProofs.** What the list of bindings is made of, for any list: both binary
searches narrow an interval whose ends they have compared. `lower_bound` returns the
place of the first binding that is not smaller (`LowerBoundSeparates`), so inserting there
keeps the order (`AddKeepsOrder`), and `bsearch` finds a binding with the chords that it is
asked for whenever one is in the list (`MatchingFinds`). That comparing two
chains is a total order (`ComparisonIsOrder`) is proved first, from the order of numbers.
The module also has what other proofs need of recursive functions: that a recursion
with a measure defines a function (`RecursionExists`), induction over it
(`RecursionInduction`), and the same for folds over lists (`FoldExists`, `FoldInduction`).

**KeyComboProofs.** `PendingAlwaysTimed` and `OnlyHeldKeysEverRepeat` are
inductive as they stand, whatever is bound and whatever the searches return: the
proofs do not expand them. `TimersAlwaysSound` is both. The other theorems are
about the searches. `BindingsInv` is inductive: the list is typed and in order
(`OrderedLists`), no binding is greater than a later one by the order of the search.
`BindingsAlwaysSound` follows by the lemmas about the list, and so do
`CompleteChainAlwaysRuns` and `WaitingAlwaysRunsTheShorter`, as action properties: what
runs is bound to the chords that were pressed.

**ConfigurationProofs.** Scripts, rules, layouts and the config file run within each other, so
the invariant speaks of the stack of calls. `TInv` holds whatever scripts say:

- `Typed`, `Distinct`, `Pointed`: the types of the options, the layouts and the calls;
  no tag has a layout twice; a pointer that is not freed points to a loaded layout.
- `Forms`: which steps a call of C may have left (`Waits` anywhere, `Begins` at the
  top only), and that a script has left what the setup lets it say.
- `Flags`: one config file runs at most, while reloading is prohibited, for a call
  of C that loads tags or layouts next.
- `OptAgrees`: when `opt` is freed, or that of the default layout, the call at the top
  is about to load the layout of the shown tag, or is the config file itself. So no
  script runs with a freed `opt`.

`More` has what holds for the setups that the properties are about. `Tamed`, for `Tame`
ones: whoever waits for the file of a layout, or walks a list of rules, has only calls
above that neither fail nor reload nor name tags, and finds its position and its list.
`Copies` and `WholeSoFar`, for `Plain` ones: layouts agree with the configuration on what
only config files set, and the configuration is what the statements of the running
file so far have said (`SaidUpTo`), or what a file that has ended said, or the built-in
one. That `SaidBy`, a fold, is the last of these is `SaidIs`, by `FoldInduction`.

`IInv` is `TInv` and `More`. What all steps share is proved once: `Became` says how the
stack of a step differs from the one before, and `StepKept` and `TamedKept` say what a
step still has to show. There is one lemma per action for `TInv` (`...Keeps`) and one for
`More` (`...More`). `PointersAlwaysSound`, `CopiesAlwaysAgree` and
`ConfigurationAlwaysSound` are parts of `IInv`, for any number of tags, layouts, rules,
keys and scripts of any length. `SetupsAssumption` says what a setup is: what scripts
name exists.

`Tame` excludes a case that came out of the proof for `SetNames`: a config file that loads
a layout and then names the tags. After `load`, `opt` is the options of the layout,
`lib_create_tags` walks the list of names in these (`lib_options.c:375`), and the first tag
that is removed takes the layout with it. TLC finds the same when a setup has such a file.

**LayoutsProofs.** The invariant `SettingsOK` (one master at least, data of
positive length, a table of natural length, a natural number of windows) is
inductive (`SettingsStayInRange`), and the lemma `NextSteps` reduces every action
to "arranges some settings" or "leaves the places alone". The arithmetic is in
`Counts`, `FullOrAll` and `DifferentPlaces`, from which `PlacesAreOwn` and
`NoneIsHiddenTooEarly` follow, for any number of windows, and together
`PlacesAlwaysSound`. `AreasExist` says the
same of the table that a window's place is read from, if there is one.
`RingNeverLeft` (`RingStaysInside`) needs only that the ring
has names and a natural index, not that the index is one of the list: after a
reload it may not be.

`LayoutsAlwaysSound` and `PreviousAlwaysSecond` are about what a tag has loaded. A layout
is loaded with all that it links, and those with all that they link, and links go in
circles; the recursion ends because each layout that it loads is one less to load.
`LoadLayoutLoads` proves from that measure (`TodoShrinks`) that the recursion is
defined, with `RecursionExists`, and by an induction over it (`RecursionInduction`)
what it returns: the list that it got in front, each layout once, each new one with
its links (`Loaded`). So `focus_layout` brings the layout that is asked for to the front, and
what was there is the second (`FocusLayoutFocuses`). The invariant `Chosen` adds what
the properties do not say: a tag that has no layout loaded has been asked for no
other since, so that its previous layout is its current one, which is what
`tag_get_previous_layout` loads; and the settings of a layout that shows no areas
keep the table of an earlier arrangement (`TablesKept`), which is why `n_area`
may become 0 after a layout was arranged and never before. That a file gives its layout an
`n_area` of 0 is excluded in `NoPlaceIsMissing` itself.

**FramesProofs.** `BoundsReach`: whatever box `apply_bounds` is given, the result
reaches into the area and has a size that can be grabbed; `BoundsStable`: what
reaches already and is large enough stays where it is, so a window does not creep
when it is bounded again. The inductive invariant is `FramesInv`, the types with
`SceneAgrees` and `FloatingReachable`: neither of the two is inductive alone, since
a drag starts from the box that was drawn. `SceneAlwaysAgrees` and
`GeometryAlwaysSound` are its parts. Most handlers end in
`arrange`, whose lemma says that it draws every window where its geometry is and
bounds those that float; the rest change one window and draw it. `DragAlwaysRigid` is an action property that follows from `FramesInv`.

Under `PlacesFit` and `AreasFit`, `TiledAlwaysApart` adds that two tiled windows
overlap by one pixel at most, and lie in the area; where the area begins at a negative
position the truncation of a sum rounds up, and there it is one more (`Up`). The
argument is about errors. `Nearest`, the rounding, is a recursive function, so it is first shown
to exist and to be close to its argument, by induction on the bits that are still to be found
(`RecursionExists`, `RecursionInduction`, `NearestClose`): a result is off by 2^-24 of
itself (`SingleClose`). Two roundings give a length (`ScaledClose`), off by 12/10000 of a pixel, and a third
a position (`PositionClose`), off by 36/10000. Both are then truncated, which takes less than a pixel.
So the end of one window and the beginning of its neighbour, integers both, differ from
what they would be exactly by less than two pixels together
(`EndsBefore`), and the end of the last from the end of the area by less than one
(`EndsWithin`). Ratios and gaps only make a window smaller within its place.

**JapokmsgProofs.** The inductive invariant is `StreamSound` itself, which is why the run
checks more than `StreamIsWhole`: `RequestsAreWhole` (a request is a header and its payload, next to
each other, in what the server has not read) and `ConnectionsAgree` (what the two
ends of a connection know of each other). `Sound` says it of one
connection, and a step is shown to keep the connection it touches sound and to
leave the others alone. `Whole`, the messages of which the last part has come, is
a recursive function: `WholeConcat` and the lemmas around it are proved by
induction on the length of the stream. `PromiseAlwaysKept` is the refinement of
`IpcPromise`, the mapping being the one in `Japokmsg`: what a client has asked is
`Whole` of the socket to the server, what is on its way to it is `Whole` of the socket and
the write buffer together, so a write from the buffer to the socket is a stutter, and
so is any step with a part that is not the last. A handler that sends to several
clients and frees some of them is one step of `Handle` or `TagsChange` with the
set of those that are lost.

**ContainersProofs.** First the laws of the lists: what `Members`, `Without`,
`ListInsert` and above all `WriteToParent` do to the elements, to their number
and to the order of any part of a list (`WrittenToParent`: the elements of the
child are in the order of the child, the others in the order they had). Then the
invariant of a desk, `Good`, in four parts:

- `Sound`: the lists. `Base` has the types, `ListsAgree`, `ScratchpadAgrees`, that
  what is on the focus stack or the scratchpad is in the lists, that a mapped window
  is in the lists unless it has lost its tag, and which tags are on the output;
  `Shows` has what `visible_con_set` of the selected tag holds.
- `Stacked`: `FocusStackIsWhatIsHere`, and that whatever is on the stack is in sight.
- `Keyed`: `KeyboardAtFocus`.
- `Steady`: for users that are `Simple`, below, the selected tag hides the tiled windows
  that do not fit, and no others.

Each function that handlers are made of has a lemma that it keeps `Sound`, wherever
the focus is meanwhile; `Arrange` makes `Stacked` and `Keyed` true again whatever
they were, and `FocusMostRecent` keeps them (`ArrangeGood`,
`FocusMostRecentGood`); `Arrange` makes `Steady` true likewise (`ArrangePlaces`). So there is one short lemma per handler, and
`ListsAlwaysSound`, `FocusAlwaysSound` and `ScratchpadAlwaysAgrees` are parts of
the invariant.

What commands do to a desk that is `Good` follows from where they put the windows.
`ZoomIs` and `RepushIs` compute the tiled list after a repush, which is
`ZoomMakesMaster`. `ShowScratchpadShows` is followed through every branch of
`show_scratchpad`: what it brings floats and is not hidden (`BringShows`), what it puts
away loses its tag (`ToScratchpadLoses`), and nothing is dereferenced that is none
(`BringUnharmed`, `ToScratchpadUnharmed`, and `InStack` for the focus that
`hide_container` does not check). Both are `CommandsAlwaysDeliver`. `ViewAndBackAlways`
says that the focus after `ShowTags` is the first window of the tag's `focus_set` that is
there, which no visit changes. `HiddenCycleAlways` is the longest: a tiled list is the
windows that fit and then those that do not (`HalvesAre`), so exchanging the focused
window with the first hidden one and turning the hidden ones by one has an inverse, the
same with the last (`OrderIs`, `FirstAway`, `LastAway`, `PlaceBack`).

The hypotheses:

- `AtFront` (`ListsAlwaysSound` only): `new_position` is 0 or less, and 0 is the
  default. Another position is counted in `con_set` and in `visible_con_set`, so
  the orders really come apart. `ListsAlwaysAgree` does without.
- `Simple` (`HiddenCycleAlways` and `CommandsAlwaysUndo`): `AtFront`, no scratchpad, and
  nobody who both swaps tags and brings hidden windows. With a scratchpad, the window that
  comes back is tiled by a later command that does not arrange (`tagset_reload`,
  `container_set_floating`), and with swapped tags, so is a focused window that floats
  at a tag that was never on the output. Then what is hidden is not what does not fit, and
  the exchange may move another window. TLC finds no harm in the combinations that the
  run has, with up to three windows; there the property is only model-checked.
- `KeysApart`: nobody both swaps tags and uses the scratchpad. With both `ListsSound`
  is false, which came out when a lemma about `move_to_scratchpad` could not be
  proved. Grab a window, swap its tag with one that was never on the
  output, drag it (it floats there), swap so that its tag is shown, and move it to the
  scratchpad. `move_to_scratchpad` has looked the monitor up, which is
  none, before `container_set_floating` gives the window a monitor
  (`scratchpad.c:19`); without a monitor it does not look up what the tag shows.
  The window is unmapped from there and stays in `visible_con_set`. TLC finds it
  with one window and three tags in eleven states; the groups of the run `windows`
  do not combine the two, and have two tags.

The condition in `FocusStackIsWhatIsHere` that the tags that are shown have been on the
output came out likewise: with swapped tags, sets and drags on three tags a
floating window of a tag that never was on the output is on the stack. With the two tags of
the run the condition always holds. `ViewAndBackKeepsFocus` has it too, since coming back
connects all tags that are shown to the output, and their windows may then have the
focus.

**Only model-checked.** Liveness (`PendingEnds`, `LastResultDelivered`,
`EveryCommandEnds`, `EveryCallReturns`, the
fairness in `PromiseKept` of `AsyncExec`): the provers handle neither fairness nor ENABLED.
That every loop of a bit set ends with the set that
`PlainSets` has (`CallsAreExact`): an induction over the turns of a loop, whose
invariant would have to say for each loop what is done so far. `Shell`: `LayerShell` has a `RECURSIVE`
operator, for an arrangement that arranges, and nothing can be proved about a module that
extends it (`RoomIsShared`, `ConstraintsSound`, `PointerFocusIsShown`,
`KeyboardComesBack`, `SloppyFollows`). Inductions over lists and numbers are done for sets
of them (`NaturalsInduct`, `ListsInduct`, `FoldInduction`: the set of those for which the claim
holds), which the provers can instantiate.

## What the code does differently from what it says

Two runs end in a counterexample; `findings` in `PROJECT.json` quotes the line
that is contradicted.

- `tags_abort`: plugging an output in can pick a tag that is locked to another
  output and fails the assertion in `monitor_get_active_tag`.
- `exec_lost`: two commands that end together lose a result.

These contradict a comment or a page of the manual too. The models do what the
code does; the properties leave them out, in a condition that says so.

- The search for a longer chain uses an order that the list is not sorted in and
  misses chains (`keybinding.c:200`): with `a`, `a b` and `b a` bound, pressing
  `b` does not wait for `a` (`man/japokwm-options.5.scd:54`).
- Viewing an empty tag leaves the keyboard in a window that is not shown any
  more (`tag.c:128`; the comment at `client.c:159` says otherwise).
- A window that closes while another tag is selected stays in
  `visible_con_set` of its own tag, which is used when the tags are swapped
  (`include/tag.h:37`, `tag.c:109`).
- After a reload only one layout is loaded, and toggling the layout reads the
  second one (`tag.c:366`; `man/japokwm-layout.5.scd:11`).
- A client that sends a header and is slow with the payload is disconnected;
  `include/ipc/ipc.h` speaks of "storing data between event_loop calls".
- After a reload over IPC the flag against recursion stays raised, and the next reload is refused
  (`lib_options.c:109`).
- Outer gaps have no effect, because `get_nth_geom_in_layout` does not look at the
  area it is given (`tileUtils.c:168`); inner gaps are ten-thousandths of the
  area and not pixels (`man/japokwm-options.5.scd:118`).
- The methods of a bit set do not change it, unless it belongs to a tag or a
  window, and `toggle` changes none (`lib_bitset.h:18`;
  `man/japokwm-bitset.5.scd:12-13,40-50`).
- A locked pointer moves: its region is empty, and `wlr_region_confine` does
  not hold back a point that is outside of its region (`cursor.c:387`; the comment
  at `:623` says "disallowing all movement").
- The keyboard goes to the last interactive surface of the list of a layer, which
  is the lowest, of any monitor (`layer_shell.c:190`; `:187` says "topmost").
- With `arrange_by_focus` the absolute box of a floating window is stored as a
  relative one (`cursor.c:466`).

Other things the models follow because the code does them, although they look
unintended:

- Neighbouring tiled windows may overlap by a pixel, because position and width are
  truncated each on its own (`container.c:281`, `utils/coreUtils.c:569`): of the places 2500
  to 5300 and 5300 to 10000 of 100 pixels, the first ends at 25 + 28 = 53, and the second
  begins at 52, which is what `0.53f * 100` is truncated to. `TiledApart` tolerates this
  pixel and no more.
- There are two lists of IPC clients, and two sockets (`ipc/ipc.c:21`,
  `ipc/ipc-server.c:31`), of which the model has one.
- `options_add_keybinding` does not replace the smallest binding of the list when
  it is bound again; both stay and the older may run (`options.c:130`).
- `sort_keybinding_element` mixes the keys of two chords when both have modifiers.
- Named combos survive the release of keys while chords are pending.
- `hide_container` uses the focused window without a check; with a tag that does
  not show itself there is none (`desk.fault` is then "null"). `CommandsAlwaysDeliver`
  shows that there is one as long as it does.
- A window that is dragged after it was put on the scratchpad leaves the
  scratchpad without a tag, and one that is unmapped and mapped again while it is
  there gets into no list: both are lost to the user.
- `new_position` larger than 0 inserts at different places in `con_set` and
  `visible_con_set`; the runs use 0, which is the default.
- A window that comes back from the scratchpad is not looked up again, so
  `visible_con_set` lacks it until something else reloads the tag. This is why
  the second half of `ShownInOrder` leaves the group "pad" out.
- A layout file that sets `n_area` calls `arrange` while it is loaded: another
  layout can come to the front and keep the focus until the next `arrange`, and
  the links are read from the layout that has got the position. The exact halves
  of `FocusedIsCurrent` and `LinkedAreLoaded` speak of quiet files.
- Assigning to `n_master` from a script sets `n_area` (`lib_layout.c:61`).
- Setting `n_area` to 0 hides one of the masters, too: `n_tiled` is
  `n_area - 1 + n_master_abs`.
- `set_master_layout_data` with fewer groups than there are masters gives several
  windows the same place; `OwnPlaces` asks for enough groups.
- `copy_layout_safe` copies the master data of the default layout and then puts
  the built-in data in its place, so the configuration cannot set it for all.
- `ring:get()` after a reload that shortened the ring reads behind its end;
  `next` and `prev` wrap around.
- A floating window that is focused and made to tile may be hidden by the layout
  and keep the keyboard: `KeyboardAtFocus` speaks of windows that can be seen.

- A single member or none leaves the bounds of a bit set where they were, so
  equal sets may be called different; `EqualsIsExact` asks for two members.
- `bitset_reset_all` and `~` know eight bits and leave the others.
- `lib_container_toggle_add_sticky` changes the set that the script has given.
- A request without payload is never answered, and `japokmsg` without a command
  waits for its three seconds; a request for an event that does not exist is
  freed and read on.
- A `japokmsg` that meets the end of the stream between header and payload
  loops for ever (`japokmsg/ipc-client.c:110`).
- `handle_too_few_tags` copies the lists of the first tag into new ones.
- A layer surface that fits nowhere is destroyed while the list of its layer is
  walked, and the next exclusive surface is passed over (`layer_shell.c:352`).
  The runs have misfits that want no exclusive room, because with one that does
  `BarsUncovered` fails.
- `arrange_layers` uses the keyboard of the seat without a check, and a seat that
  lost its last keyboard has none (`layer_shell.c:198`).
- Every command that arranges windows takes the keyboard from a launcher.
- A bar at the bottom counts as one at the top, and new bars are shown whatever
  the tag hides (`bar_get_direction`).
- An unmapped exclusive surface keeps its room.
- The region of a constraint is looked up with the x coordinate of its window
  for y, and a constraint is taken by a motion without telling its client.
- The timer that hides the cursor is never armed.
- A layout file that fails, or a rule's function that reloads, frees the list
  its caller walks (`rules/rule.c:58`, `tag.c:569`); so does naming tags from a
  key binding, or from a config file that has loaded a layout (`lib_options.c:375`).
  `NothingFreedIsUsed` speaks of scripts that do not (`Tame`).
- A config file that loads a layout makes `opt` the options of that layout, so
  the statements after it set those (`tag.c:516`).
- When the error file cannot be opened, closing it fails an assertion
  (`parseConfigUtils.c:262`).
- Listeners pile up with every reload.
- With `smart_hidden_edges` a window keeps the hidden edges it had when it was
  alone (`container.c:1180`); setting a ratio arranges nothing.

## Not modelled

Every component is listed in `PROJECT.json` with what is left out and why. In
short:

- Popups, subsurfaces, tablets and rendering forward to wlroots and keep no
  state that another part reads.
- The functions of the script API that edit the window lists directly can break
  every invariant of the lists; the models are about the commands.
- Lists, geometry, colours and information for scripts, and the JSON text of
  IPC answers, are conversions. `ipc_server_sway_adapter.c` is one comment.
- X11 windows that manage themselves, sticky windows beyond their own tag, the
  stacking order of containers, `arrange_by_focus` and resizing within a layout.
- The moves of windows between outputs: `MonitorTags` has the tags on several
  outputs and `Containers` the windows on one. Their product is too large for a
  run; what goes wrong between them (`tagset_load_tags` returns at the first
  monitor whose tag is not damaged, `tagset.c:98`; the searches for empty tags, which count
  down with an unsigned index, `tag.c:334`) is visible in the code only.
- Floating-point arithmetic of tables in Lua, which layouts are written in.

## Plan

Done, in this order: `MonitorTags`, `KeyCombo`, `AsyncExec` with `DeferredCalls`,
`Containers`, `Layouts` with `Tiling`, `Japokmsg` with `IpcServer` and `IpcPromise`,
`BitSets` with `PlainSets`, `Shell` with `Focus`, `LayerShell` and `Pointer`,
`Configuration`, `Frames`, and the proofs named above. Left:

1. Proofs: `HiddenCycleReturns` for users who swap tags as well, and `KeysApart`
   weakened to users who drag no windows.
2. `Containers` with two outputs, sticky windows and X11 windows.
3. `arrange_by_focus` and resizing within a layout, in `Frames`.
