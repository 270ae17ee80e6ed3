# TLA+ specifications of ESP-IDF core components

ESP-IDF is the framework for Espressif's chips: a FreeRTOS system with a hundred
components under `src/components`. This fork adds the Davicom DM9051 SPI Ethernet
driver. Most of the tree is third-party code (lwIP, mbedTLS, NimBLE, TLSF, the
kernel), hardware headers, or drivers whose meaning is the peripheral's. The
specifications here are about the code that is ESP-IDF's own *logic*: what has to
survive a power loss, and what several tasks and interrupts do to the same state.

Contents: [inventory](#inventory), [plan](#plan), [modules](#modules),
[runs](#runs), [other disagreements](#other-disagreements), [fairness](#fairness),
[proofs](#proofs), [limits](#what-is-not-modelled).

## Inventory

| Component | State | Operations | Interacts with | What is hard | What makes it correct |
|---|---|---|---|---|---|
| `wear_levelling` / WL_Flash | two copies of a state header, a position record per move, N+1 pages; position, move count and erase count in RAM | mount (`init`, `initSections`, `recoverPos`), `erase_range`, `write`, `read`, `flush`, `updateWL` | flash below; FAT above | power loss between any two flash operations, failing flash operations, repair on mount | a page reads as what was last stored in it, whatever moved; wear is spread |
| `wear_levelling` / WL_Ext_Safe, WL_Ext_Perf | a dump sector and a transaction state | erase of a part of a sector, `recover` | on top of WL_Flash | power loss in the middle of the copy | the neighbours of an erased part survive |
| `wear_levelling` handles | table of instances with locks | mount, unmount, read, write | all users | use racing unmount | no instance is used after it is freed |
| `esp_timer` | two sorted lists of armed timers, two alarm timestamps, the alarm register | create, start, restart, stop, delete; interrupt; timer task | systimer hardware, callbacks that call back | calls from any task, callback and core between any two critical sections | no armed timer is left without an alarm; what is due is dispatched |
| `app_update` + `bootloader_support` | two otadata sectors, app partitions | `esp_ota_begin/resume/write/end/abort`, `set_boot_partition`, mark valid/invalid; boot selection, fallback | application and bootloader share only the flash | power loss anywhere; calls in an order nobody intended | something boots; an unconfirmed app gets one attempt, then the last confirmed one runs |
| `pthread` condition variables | list of waiters, a semaphore for each | wait, timed wait, signal, broadcast | caller's mutex | steps of waiters between two critical sections, timeouts | no wakeup is lost, no dead waiter is touched |
| `pthread` read/write locks | three counters, a mutex and a condition variable | rdlock, tryrdlock, wrlock, trywrlock, unlock, destroy | the two above | preference rules, races after a wakeup, counter width | exclusion, no lost wakeup, calls return |
| `nvs_flash` storage, pages, page manager | pages with a state, a sequence number and a log of items; page lists in RAM | set, erase and get of primitives and blobs; `requestNewPage`; `load` | flash below, every component with settings above | power loss between any two changes of the flash, while a page is reclaimed, during the repair itself | a call is atomic and durable, nothing leaks, the partition can always be mounted |
| `esp_ringbuf` | acquire, write, read and free pointers, headers in the buffer's memory, two lists of sleepers | send, acquire/complete, receive, return, size queries | tasks and interrupts | wrap-around, completion and return out of order | a FIFO; space comes back; sleepers are woken |
| `esp_event` | queue, nested handler lists, a recursive mutex, `running_task` | post, run, register, unregister, delete | every driver | unregistering while the lists are walked, calls from inside handlers, full queues | an event reaches the handlers registered for it, in order; the loop comes back |
| `esp_eth` driver with the DM9051 PHY and MAC, and its glue | `fsm`, `link`, the PHY's `link_status`, the MAC's receiver and poll timer, `check_link_timer`; the interface behind the event queue | start, stop, periodic link check, event handlers, install, uninstall | esp_timer task, esp_event loop, esp_netif | three tasks; events refused by a full queue; steps that fail half way | driver, MAC, PHY and interface agree on the link and follow the wire |
| `esp_pm` locks | counts by mode | acquire, release, delete | idle task, tick hook | two cores | the mode follows the locks held |

Every other component, with the reason it is left out, is listed in `PROJECT.json`.
The hazards found while reading are there too, each at its line.

## Plan

Written, in this order:

1. `SectorStore` (abstract) and `WLFlash` (detailed), refinement, proofs in `WLFlashProofs`.
2. `EspTimer`.
3. `OTA`.
4. `PthreadCond` with its client `PthreadWork`; `PthreadRwlock`, which composes the
   condition variable's steps, with proofs in `PthreadRwlockProofs`.

5. `WLExt`: dump and replay of a sector over a flash that behaves as `SectorStore` says,
   which `WLFlash` implements; it implements a `SectorStore` of small sectors itself.
6. `KVStore` (abstract) and `NVS` (detailed), refinement.
7. `RingBuf`: the three types of buffer against a queue kept as history.
8. `EspEvent`: one loop. `EspEth`: the driver composed with its timer, an event queue that
   can be full, and the glue.

9. Theorems: `WLFlashProofs` and `PthreadRwlockProofs` came with their modules; then
   `WLExtProofs`, `EspEthProofs`, `EspTimerProofs`, `OTAProofs`, `PthreadWorkProofs`,
   `RingBufProofs`.

To be written:

10. `PmLocks`, `WLHandles`: small, for the races on counts and handles; loop deletion in
    `EspEvent`, install and uninstall in `EspEth`.

## Modules

### WLFlash, SectorStore

`WL_Flash.cpp` maps N user pages to N+1 physical ones; the spare "dummy" page moves
through the partition, and a move is a copy of one page followed by a position record
in each of two state copies. After N moves the header is rewritten with the next move
count ("wrap").

`page`, `hdr` and `rec` are the flash; `pos`, `mc` and `cnt` are the fields of `state` in
RAM. `pc` names the next flash operation of the call under way, so each action is one
erase or write of the flash and a power loss or an error can fall between any two.
`init` with its branches (format, synchronise, rebuild copy 1 or 2), `recoverPos`,
`updateWL`, `erase_range`, `write` and `flush` are all there. A header is a move count
or a reason why its CRC fails. `vol` is what the user may rely on;
`short` and `fault` are history variables that mark copy 1 rebuilt without its records, and
a failure the code does not recover from (see the runs). `Mount` is `init` with the header of
copy 1 as it is in the flash; `MountBlind` is `init` after a read of copy 1 that failed, whose result the code
does not look at (`WL_Flash.cpp:123`): it goes on with whatever the allocated object held, and unless
copy 1 was broken anyway that is one of the failures `fault` marks. Contents are
model values: what is written, erased, or left over by an interrupted operation (`Junk`).

`SectorStore` is the promise: an array of sectors in which an erase or write, whole or
interrupted, changes no sector but its own. `ImplementsStore` maps each state of
`WLFlash` to the array a mount would find.

### WLExt

`WL_Ext_Perf` erases part of a flash sector by reading the rest, erasing all and writing the
rest back; `WL_Ext_Safe` dumps the sector and notes the transaction first. `mode` is the class,
`flash`, `dump` and `st` are the flash, `buf` is `sector_buffer`, `todo` the pieces into which
`erase_range` splits its range, `pc` the next call on the flash below. Each may be cut by a power
loss or return an error; the flash below changes no other sector then, which is what
`SectorStore` promises of `WLFlash`. `recover` runs at every mount and may be cut short too.
`View` is what the next mount makes of the flash; `ImplementsStore` says that it is an array of
small sectors in which the note of the transaction is the moment the erase happens.

### NVS, KVStore

`page` is the flash: for each page its state, its items and the next free entry. `list` and `free`
are `PageManager`'s lists; sequence numbers are kept as the order of `list`. `pc`, `ret` and `op` are
where the call or the mount is: `writeItem` for primitives, `writeMultiPageBlob` with its
retry loop and clean-up, `eraseMultiPageBlob`, `requestNewPage` (choice of a page, copy of
its items, erase), `load` (headers, last-item check, duplicates, a page found FREEING, indexes
without chunks, chunks without index). `Do` makes each change of the flash a step that a power
loss may prevent, cut or follow. `KVStore` is the promise: a call takes effect at one moment or
fails. `fault` marks the two defects the behaviours are not followed beyond: the last-item
check of `nvs_power_loss`, and the clean-up of a failed blob (other disagreements).

### RingBuf

The pointers, `full`, `xItemsWaiting` and the headers in `mem` are the code's; addresses are offsets
from `pucHead`, and a header takes 8 bytes. What memory shows where no item is, is a choice
from `Junk`: the code sometimes looks there. `q`, `sent` and `got` are the queue the buffer is
meant to be; `Receive` compares what the code hands out with it. A call is one critical section
of the buffer's spinlock. One sender and one receiver may sleep; everybody else comes and goes.
The loops of `prvSendItemDoneNoSplit` and `prvReturnItemDefault` are a `Walk`: the address after each
turn, as a function of the number of turns. It has `xSize \div 8` of them, and a header takes 8
bytes, so the loop has always come to its end.

### EspEvent

`nodes` are the nested lists as the code builds them (loop nodes, base nodes, id nodes, each with
handlers), so the walk of `esp_event_loop_run` meets what the code's walk would. The loop's
steps are: take a post, take the mutex, call or pass over each handler, give the mutex. A handler
may unregister itself or another; a task may do so while the mutex is free, or wait for it, mark the
handler and post a clean-up event. `own` says whether the loop has a task; if not, callers run it
with a time limit. `regs` is the order of registration and `due` what the current post
still has to reach; `fault` names the failures under "other disagreements".

### EspEth

Three tasks: the user's (`esp_eth_start`, `esp_eth_stop`), the timer's (`eth_check_link_timer_cb`)
and the event loop's, which runs the glue's handlers. A report of a link change is four
steps that others may come between: `mac->set_link`, the driver's `link`, the post without waiting, and last
the PHY's `link_status`. `esp_eth_start` has the PHY negotiate first (`Negotiate`), which takes
`link_status` for down. `wire` is the cable; `Trouble` bounds how often a register
cannot be read or written or somebody else's post takes a place in the queue. `mac` is the enable bit of the
receiver, which `mac->set_link` changes last. `poll` is the DM9051 without
an interrupt line. `fault` names how a behaviour has left what the driver repairs while it is left
alone: `late`, `poll`, `flap`, `stale`, `start`, `stop` (see `Faults` and the other disagreements).

### EspTimer

`list` is `s_timers`, `stamp` is `timestamp_id`, `target` and `fired` the hardware alarm.
A critical section of `timer_list_lock` is one action; callbacks run between two of them,
where any call may come. The times the start functions read before they lock may be stale
by up to `MaxLate`. `stale` records that `esp_timer_restart` has unlinked a timer that is in no
list; what the pointers do afterwards is undefined, and runs that are about something else
stop there. Whether the build has ISR dispatch is the variable `isr`, so one run looks at both.

### OTA

The application (`esp_ota_ops.c`) and the bootloader (`bootloader_utility.c`,
`bootloader_common_loader.c`) as one system over the two otadata sectors. A call that
writes otadata leaves a list of `jobs`, one erase or write each; a power loss may cut any of
them, and the sector then fails its CRC. `build` is the kind of device: slots, factory app,
rollback, and `Uses`, which names what
callers do beyond the documented order; with `Uses = {}` the application downloads, selects, restarts, and
confirms or rejects, and with all of them it calls anything at any time. That an app confirms itself before
it selects another one is such a use of the callers' (`"early"` lifts it); `esp_ota_ops.c` checks nothing of
the kind. `good` (the last app that confirmed itself), `chosen` and `tries` are history variables.

### PthreadCond, PthreadWork

`waiters` is `cond->waiter_list`, `sem[t]` the semaphore on the stack of `t`'s call and
`wpc[t]` where `t` is in `pthread_cond_timedwait`: queued, asleep, woken (with or without the
semaphore), off the list. `PthreadWork` is the usual client, producers and consumers with
a predicate loop; it is there to ask what a lost signal means, and is marked external.

### PthreadRwlock

Extends `PthreadCond` with the lock's three counters and one action for each critical section
of each function. The functions enter by locking the mutex in a step of its own, so a
try can meet a mutex that is briefly held. `active_readers` is an `int8_t` (`Int8`);
`active_writers` never exceeds 1 and `waiting_writers` the number of threads, so
their eight bits do not matter here. `readers` and `writers` record what the callers really hold.
Callers obey POSIX: several read locks at a time are allowed (the repository's
test "multiple read locks" does that), the write lock is asked for only by a thread
that holds nothing, and only what is held is unlocked. After `destroy` has freed the lock
nothing more is modelled than who was still inside.

## Runs

`cd tla; tlc -workers 2 -config X.cfg M`. Each `MC` module only extends its specification.

| Run | Config | Shows | Bounds, and why they suffice |
|---|---|---|---|
| `wl_flash` | `WLFlash.cfg` | `ReadsBack`, `Durable`, `RecordsNeedCopy2`, refinement of `SectorStore`; every page visits every place (`Rotates`); with power losses, failing flash calls and a failing read at mount | 2 user pages on 3, a move at every second erase: moves, wraps of the dummy page and of the move count all happen; the proofs cover the rest |
| `wl_ext` | `WLExt.cfg` | `erase_range` erases its range and nothing else; neighbours survive power losses, those during `recover` included; refinement of `SectorStore` | 2 flash sectors of 2 small ones, both classes: ranges begin and end inside a sector, span both, and are whole sectors |
| `timer` | `EspTimer.cfg` | lists sorted and consistent; in the default build no timer without an alarm, and one that is due is dispatched | 2 timers, clock to 4 (3 with ISR dispatch): one-shot and periodic timers expire together, apart and late |
| `ota` | `OTA.cfg` | every boot starts the app that last confirmed itself, or the new one for the first time; a new app that was selected is started unless the selection is lost (`Updates`); whatever is called, the running app and an app to boot stay intact; the bootloader always starts one | 3 slots with documented use, and 2 slots and a factory app with any use; 2 power losses (any number in the proofs), sequence numbers to 5: slots are used again, and slots and sectors are out of step |
| `nvs` | `NVS.cfg` | refinement of `KVStore`; reads return the newest value; the partition can be mounted; nothing leaks; room for what a page was requested for; calls and mounts end | 3 pages of 4 entries, a primitive key of 2 values, a blob of 1 or 2 chunks: every call reclaims pages, blobs span pages and do not fit |
| `ringbuf` | `RingBuf.cfg` | items in use never overlap, come out whole and in order, are found when due; space comes back and is reported right; sleepers are woken | two sizes of each type, item sizes that fill a buffer with 2 to 5 items, need padding, or are empty: the pointers meet at every address |
| `event` | `EspEvent.cfg` | each post reaches exactly the handlers registered, in order; lists exact; the loop comes back | a handler of each level, an event that reaches all and one that reaches two, queue of 2: lists split, removals are put off, the queue is full |
| `eth` | `EspEth.cfg` | at rest everybody agrees on the link; a started driver follows the wire | queue of 3, 4 pieces of trouble: events are refused in start, stop and check, in both modes of the DM9051 |
| `cond_broadcast` | `CondBroadcast.cfg` | list of waiters alive; a waiter comes back while there is work | 2 consumers, one with a time limit, 1 producer, 3 pieces of work |
| `rwlock` | `Rwlock.cfg` | exclusion, no lost wakeup, no dead waiter touched, destroy spares waiting writers, all calls return when no new ones come | 3 threads, all functions: two waiters, readers or writers, beside a holder; nested read locks are covered by the proofs |

A `CONSTRAINT` (`NoFault`, `Explored`) ends a behaviour at the first failure that the code is known
not to recover from; `wl_flash` goes on, with contents that do not matter. Each such failure is recorded in a history variable by the action where it happens,
and each is described below; up to there, everything in the table holds. The type invariants
are conjuncts of the structural invariants (`Disjoint`, `ListsExact`, ...), and `TypeOK` on its
own where it is proved.

Two runs end in a violation, each a place where the code and a text of the repository disagree:

| Run | What happens |
|---|---|
| `wl_power_loss` | state copy 1 rebuilt from copy 2 without its position records: a second power loss before the next wrap shifts every page |
| `nvs_power_loss` | power lost after a blob's new chunk and before its index, with a chunk of the old version on the same page: the check of the last item at load erases the old chunk, and neither value is left |

Deadlock is checked except where the system may stop: no timer armed or the clock at its bound
(`timer`), all work produced (`cond_broadcast`), the lock destroyed (`rwlock`).

### Other disagreements

The same specifications show these with other constants or another property; they have no
configuration of their own.

| What happens | How to see it |
|---|---|
| **WL_Flash.** A failed write of a position record leaves flash one move ahead of RAM; later writes that return `ESP_OK` go astray after a reboot (`WL_Flash.cpp:477`; the component's `README.rst` calls the flash consistent when a function returns) | `MCWLFlash`, `SpecFlashError`, `N = 2`, `Rate = 1`, invariant `ConsistentOnReturn` |
| A failed read of state copy 1 goes unnoticed: `init` takes the copy for broken, erases it with its records and puts the dummy page at the last position, which shifts every page (`WL_Flash.cpp:123`) | `MCWLFlash`, `SpecReadError`, `N = 2`, `Rate = 2`, invariant `SurvivesPowerLoss`: no power loss is needed |
| **WL_Ext.** The note of a transaction has no checksum and its sign is its first word: a note torn by a power loss may pass for one, and `recover` then writes the dump over another sector (`WL_Ext_Safe.cpp:158`) | the state `Torn` in `WLExt`, which sets `fault` |
| A flash error after the note leaves the transaction pending while the partition stays mounted; the next mount carries it out over newer contents (`WL_Ext_Safe.cpp:163`) | `fault` in `WLExt`; without `NoFault` and the guard on `fault`, `NonePending` fails |
| `WL_Ext_Perf` loses the neighbours on a power loss: a documented trade-off | `Durable` without `mode = "safe"` |
| **esp_timer.** `esp_timer_restart` tests `timer_armed` before it locks, and unlinks a timer that has expired in between (`esp_timer.c:143`; `esp_timer.h:189` promises `ESP_ERR_INVALID_STATE`) | `EspTimer.cfg` with invariant `NoStaleRemove` |
| With ISR dispatch an interrupt takes the earlier of two timestamps for its cause and erases it, though its timer is not due and nothing sets the alarm again (`esp_timer_impl_common.c:46`) | `EspTimer.cfg`, `IsrSupport = {TRUE}`, `NoLostAlarm` without its conjunct `~isr` |
| A `skip_unhandled_events` timer that has expired exactly twice is called twice (`esp_timer.c:414`; `esp_timer.rst:262` says once) | `EspTimer.cfg` with property `SkipsMissed` |
| **OTA.** Selecting the selected partition again reuses its sequence number, and the new app gets a second attempt (`esp_ota_ops.c:585`; `ota.rst:96` says "only one attempt") | a build with `slots = 2`, `uses = {"again"}`, `RollsBack` without its guard on `Uses` |
| Confirming after another app was selected confirms that one (`esp_ota_ops.c:914`) | `uses = {"early"}`, `RollsBack` likewise |
| A power loss while both otadata sectors are erased for the factory app boots the app before the current one (`esp_ota_ops.c:614`) | `factory = TRUE`, `uses = {"factory"}`, `MaxLosses = 1`, `RollsBack` |
| `esp_ota_resume` lacks the check of the running app's state that `esp_ota_begin` has, so an unconfirmed app may overwrite the one it would be rolled back to (`esp_ota_ops.c:236`) | `uses = {"resume"}`, `RollsBack` |
| **NVS.** `writeMultiPageBlob` that gives up erases its chunks by number without their version, and may hit those of the old blob (`nvs_storage.cpp:367`) | `fault = "cleanup"` in `NVS` |
| `cmpMultiPageBlob` takes the CRC of each chunk over the start of the data, so an unchanged blob of several chunks is always written again | by reading |
| A power loss while a key changes its datatype across pages leaves both items (`nvs_flash.rst:66`) | by reading; keys keep their datatype in `NVS` |
| **esp_ringbuf.** An item is handed out before it is completed, if a dummy header in front of it has been passed as written (`ringbuf.c:391`, `517`; `freertos_additions.rst:230` says it cannot be) | `RingBuf.cfg` without `NoFault`, invariant `OnlyCompleted` |
| `xRingbufferGetCurFreeSize` of an allow-split buffer can be too small: size 40, one item of 12 bytes, it says 4 and 12 bytes fit | `FreeSpaceExact` without `type # ALLOWSPLIT` |
| A completion that makes several items available, and a return that frees space for several, wake one task each | by reading; `RingBuf` has one sleeper on each side |
| **esp_event.** A handler registered again while its removal is queued is found in the list: `ESP_OK`, and it is never called (`esp_event.c:176`) | `fault = "again"` |
| A handler that unregisters itself with a full queue gets a timeout and stays marked for good: neither called nor removed | `fault = "stuck"` |
| Unregistering waits for room in the queue with the mutex held, while the loop has a post and waits for the mutex (`esp_event.c:535`) | `Deadlocked` in `EspEvent` |
| After a run of the loop that ends by its time limit `running_task` stays set (`esp_event.c:719`): a later post of that task to a full queue is dropped although it may wait | `fault = "dropped"` |
| A handler registered twice can land in two nodes of the lists, and is still called after one unregister (`esp_event.h:256`: "so it will no longer be called during dispatch"); unregistering one key marks the registration of the same function for another (`esp_event.h:262`); loop level handlers are called with the internal clean-up event | by reading; a handler has one key and one registration in `EspEvent`, and the clean-up event is in `Matching` |
| **esp_eth.** `esp_eth_stop` does not wait for a callback of the timer it stops: CONNECTED may follow STOP (`esp_eth.c:333`) | `fault = "late"` in `EspEth` |
| With a polling DM9051 a CONNECTED event that was refused is never repeated: `mac->set_link` starts the poll timer again, which refuses (`esp_eth_mac_dm9051.c:582`); a stop then leaves the MAC running (`esp_eth.c:337`: "MAC is stopped by setting link down at PHY layer") | `fault = "poll"` |
| DISCONNECTED refused and the cable back before the next check: `link_status` never changed, so the link stays down and the MAC stopped | `fault = "flap"`; stopped before that, `"stale"`: the next start takes `link_status` for down and mends it |
| A `mac->stop` that fails after it has masked the interrupt leaves the receiver on and silent; with the cable back before the next check nothing enables the interrupt again (`esp_eth_mac_dm9051.c:458`) | by reading; `mac` is the receiver only |
| A start or stop that fails half way takes nothing back: a driver that is in state START without its timer cannot be stopped cleanly, and STOP is never posted (`esp_eth.c:308`) | `fault = "start"`, `"stop"` |
| **pthread.** Two signals in a row wake one waiter, since the first is not removed from the list (`pthread_cond_var.c:67`; `pthread.rst:41` says that differences from the standard are noted, and this one is not) | `CondBroadcast.cfg` with `Notify = "signal"`, `NoneLeftWaiting` |
| The 128th read lock makes the `int8_t` count negative and lets a writer in (`pthread_rwlock.c:177`) | `PthreadRwlock`, 2 threads, `Depth = 128`, `Ops` the two try functions and unlock, `Exclusive` |
| A waiting reader is in none of the counters `pthread_rwlock_destroy` looks at, so the lock may be freed under it (`pthread_rwlock.c:123`); `DestroySafe` therefore speaks of writers only | by reading; the comment at line 36 says waiting readers are counted as negative numbers |
| **Handles.** `check_handle` runs before the instance lock is taken: `wl_unmount` may free the instance in between (`wear_levelling.cpp:196`) | by reading; not modelled yet |

### Fairness

- `WLFlash`: weak fairness of mounting and of the steps of a call under way: code that
  runs to its end. Nothing forces a user to call; `Rotates` assumes that erases go on.
- `EspTimer`: weak fairness of the counter, and of the rest of the system as a whole (interrupt,
  timer task, return of callbacks). The timer task has almost the highest priority. No call is assumed.
- `OTA`: weak fairness of the bootloader, which does nothing else.
- `NVS`: weak fairness of the thread that mounts or calls. Power may always fail again; `Completes`
  is conditional on its staying on from some time on.
- `EspEvent`: the loop's task runs, handlers return, and a task that can post its clean-up does.
  Nobody has to post, register, or enter a loop without a task.
- `EspEth`: the tasks run, the armed timer fires, the loop takes its posts. The cable and the user do
  what they like; `Recovers` is about a cable and a user that have come to rest.
- `PthreadCond`, `PthreadRwlock`: weak fairness of a thread's next step; strong fairness of
  locking a mutex, since a FreeRTOS mutex that is given goes to a waiting task; whoever holds
  the read/write lock unlocks it. `Returns` is conditional on new requests ceasing: under steady
  traffic of new readers a writer may wait for ever, as `pthread_rwlock_rdlock` lets them pass.

## Proofs

`tlapm WLFlashProofs.tla`, and likewise `WLExtProofs`, `EspTimerProofs`, `OTAProofs`, `EspEthProofs`,
`PthreadWorkProofs`, `PthreadRwlockProofs`, `RingBufProofs`. TLC checked each inductive invariant before it was proved. The theorems
hold for every value of the constants that the named assumption of the module allows; the
bounds on power losses, troubles, times and sequence numbers are constants there too, so they
are arbitrary.

**WLFlash** (`WLAssumption`: any number of pages, any update rate): `TypeCorrect`,
`ReadBackCorrect`, `DurableCorrect`, `RecordsCorrect`. None of the properties is inductive: that
a page can be read back depends on how the mapping in RAM and the one in flash relate
*inside* a move or a mount. `IInv` says this for each group of `pc` values: `SteadyInv` (RAM and
both headers agree, records say the position, and between copy and record the page is in two
places), `WrapInv` (position 0 with the new count is position N with the old one),
`MountInv` (what each repair branch has established so far), `OffInv` with
`FlashShape`, the four shapes of the flash that `init` recognises. The arithmetic is in
lemmas: `calcAddr` is injective and misses the dummy page; moving the dummy page on by one
changes the mapping of one page only; the wrap changes none. `ImplementsArray` is the
refinement: every step is a step of `SectorStore` on the array a mount would find, or
leaves that array alone. It needs to know besides which call is under way (`CallInv`), and that the
page a wrap has moved is in both places until the flash says so (`TwiceInv`). All of this is said
up to the first failure that `fault` names; power losses and other failed calls come at any moment,
and that a read of copy 1 that fails does no harm when the copy is broken is part of it (`ReadErrorTold`).

**WLExt** (`ExtAssumption`: any number of flash sectors and of parts in each):
`ErasesRangeAsked`, `SafeIsDurable`, `ImplementsArray`. `Queue` says that the pieces still to do are
disjoint parts of the range asked for, which takes the division of the range at
sector boundaries apart; `Progress` that a sector of the range is erased or its piece is
still to do; `Saved` where the parts to be kept are at each `pc`: in the buffer and the
flash, then in the dump too, then noted. With that, cutting the work short anywhere,
`recover` included, leaves a flash from which the same array is rebuilt. The refinement
follows from `IInv` before and after a step.

**EspTimer** (`TimerAssumption`: any finite set of timers, any times): `ListsSorted`,
`AlarmNotLost`. Both are about behaviours in which `esp_timer_restart` has not unlinked a timer that
is in no list (`stale`, other disagreements), and the second about builds without ISR
dispatch, as the properties say. The lists' part rests on lemmas about inserting into and
removing from a sorted sequence (`Place`); the alarm's part on `TaskOnly`: without
ISR dispatch one list, one timestamp and one dispatcher are in use, so the minimum over the two
timestamps is the task's.

**OTA** (`OTAAssumption`: any partition tables, with `ota_seq` able to number all slots; the
model bounds `ota_seq`, the code has 32 bits): `AlwaysBootable` from
`BaseInv`, `RollbackWorks` from `RollInv`. `BaseInv` knows the shapes of the list of jobs,
that an update never goes to the running partition, and that there is an app to go back to
while an app gives itself up. `RollInv` is about rollback builds and callers in the documented order.
`Fine` relates the two sectors to the history: the confirmed entry that counts names the good
app, with none it is the first app, an entry that is not confirmed is the active one and of
the chosen app. `Planned` says that a call's erase and write lead from a `Fine` state through
`Fine` states to a `Settled` one, in which the running app is on trial, has given itself up, or is the
good one. What a power loss leaves of a sector is, for all readers, no more than an erased
one (`FineTorn`), so it has to be shown only once that every plan may be cut short. Each action's
part is then a lemma on two entries (`FineSelected`, `FineTried`, `FineConfirmed`, `FineGivenUp`, `FineFirst`,
`FineLost`). That `SeqFor` finds a number of the slot asked for, larger than the active
one, is arithmetic on remainders (`RoundHasAll`, `Residue`).

**EspEth** (`EthAssumption`: a queue of any size, any number of troubles): `LinkViewsAgree`, before the first
failure that `fault` names. `TimerInv`, `UserInv` and `LinkInv` say where each of the four
views of the link is at each step of the two tasks that change it; `QueueInv` relates
the interface now to what it will be when every post has been dispatched (`EndAdded`, `EndUp`), through
a sequence of intermediate states in which it is never up outside the stack.

**PthreadWork**, for any set of threads, with or without time limits, and any number of pieces
of work: `WaitersOutliveList` and, when work is announced by broadcasts, `BroadcastReachesAll`.
`WInv` adds to `EntriesAlive` who may hold the mutex (`Holder`: the waiter that is about to
unlock it has it). A thread joins the list under the mutex and when there is no work,
and a broadcast reaches all of the list, asleep or not yet. That the threads then do
come back is liveness (`NoneLeftWaiting`) and left to TLC.

**PthreadRwlock**, for any finite set of threads which together hold at most 127 read locks
(`Countable`, the width of `active_readers`; with 128 exclusion fails):
`TypeCorrect`, `Excludes`, `WakesUp`, `NoDanglingWaiter`, `SparesWriters`. `IInv` adds to the properties that
the mutex is held by exactly the thread that is between lock and unlock (`Protocol`), and that
the counters are the cardinalities of what is held and who waits (`Counted`). Exclusion
follows from the counters; no wakeup is lost because the list of waiters contains
every blocked thread (`EntriesAlive`), so that the broadcast of the last one to leave
reaches all, and who waits again does so under the mutex for a condition that still holds.
The waiting writers are in the counter that `destroy` looks at, so it spares them.

**RingBuf** (`RingAssumption`: any sizes, aligned and of 16 bytes or more where there are headers; any
item lengths; memory out of use may show any header): `Invariant`, and from it `ItemsDisjoint`,
`ReceivedInOrder`, `CompletedDelivered`, `SpaceAccounted`, `WakeupsKept` and `EarlyOnlyNoSplit`.
The history says nothing about a no-split buffer that has handed an item out too early (other
disagreements), so three of the theorems carry the condition `fault = "none"`, where the run has
its constraint; `ReceivedInOrder` is about the first thing that goes wrong.
None of the properties is inductive. `RInv` measures everything as a distance behind `pucFree`
(`Off`), so that the wrap disappears: `u` bytes are in use, `ro` of them retrieved and `wo` written.
`Layout` says that headers lie one behind the other without a gap over those `u` bytes, the space
a dummy or a split part leaves at the end of the buffer included; `Parted`,
`Ordered` and `Owned` that the headers are those of the items of `q`, in their order, and for the rest dummies
and returned items; `Freed` and `WrittenTo` that the two loops have gone as far as they could,
which is what makes the next call find them right; `Waiting` is the set of headers that `xItemsWaiting` counts.
For a byte buffer, `Bytes` relates each byte between `ro` and `u` to its number in the stream.
`WalkAlong` is the lemma about the loops: going from header to header, a walk stops at the first one it
may not pass, within its number of turns, and has passed exactly those before it. It is shown by
induction on the turns, in the form the prover takes (`Inductive`: a set of numbers
with 0 that is closed under adding 1 has all of them, from the well-foundedness of `<`). For each
operation there is then a lemma on headers (`Extended`, `Completed`, `Taken`, `Returned`) and one on the
step (`SendNoSplitStep` to `ReturnBytesStep`). A sender stays blocked for good reason since what does not
fit does not fit when more is in use either (`FitsBefore`); a receiver, since neither acquiring nor
returning makes anything available (`AcquireAvail`, `ReturnStep`). `SpaceAccounted` is arithmetic in units of 4
bytes (`NoSplitSpace`, `AllowSplitSpace`), after `AllReturned`: with all items returned, `Freed` leaves no header.

Only model-checked: all liveness properties (the prover does not do fairness); `NVS` with its
refinement of `KVStore`, and `EspEvent`. Their operators take filters, folds and flattenings of
sequences from community modules that reach recursive definitions, which the prover does not
accept in a module with theorems; to prove about them they would first have to be written anew
with functions, as the loops of `RingBuf` are.

## What is not modelled

- Most of the tree by lines: register headers for each chip, hardware abstraction, vendored
  libraries and their tables make up nearly all of its 4.7 million lines and have no behaviour of
  their own to specify. The modules cover a small share of the lines, and could not cover a third.
- The upgrade of WL_Flash from format version 1; `WL_Flash::read` has no effect on state.
- Of esp_timer: dump and profiling, correction of time after light sleep, the LAC timer port.
- Of OTA: anti-rollback by eFuses, staging and final partitions, several handles at a time, the
  contents and verification of an image (an image is intact or not).
- Of pthread: creating and joining threads, lazy initialisation of static objects, destroying
  a condition variable; time, except whether a limit may pass; what a try returns.
- Of NVS: flash calls that return an error, changes of a key's datatype, the old blob format,
  namespaces, iterators, statistics, encryption. Pages of 4 entries never meet the
  threshold of `requestNewPage` at which unused entries count (`10 * t < E - 1`; it needs 12).
- Of esp_ringbuf: queue sets, deletion, static and capability allocation, more than one sleeper
  on a side.
- Of esp_event: the identity of handler instances, registering from inside a handler, deleting a loop,
  running out of memory, profiling.
- Of esp_eth: install, uninstall and references, transmit and receive, ioctl, the outcome of auto-negotiation, other
  MACs and PHYs. The glue's calls of esp_netif are the two flags `added` and `up`.
- Widths of integers other than `active_readers`: sequence numbers, move counts and times are
  32 or 64 bits wide and do not wrap in a device's life.
- `esp_pm` locks and the handle table of `wear_levelling` (planned), and the components `PROJECT.json` lists with
  their reasons.
