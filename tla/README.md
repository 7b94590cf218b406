# Verification of DC-M33

DC-M33 is a custom firmware for the PSP: kernel modules written in C that are
loaded beside, and patch, the closed firmware; boot code; and the tools that
install it.  This directory holds TLA+ specifications of the parts that keep
state of their own, TLC configurations that check them on small instances, and
proofs checked by TLAPS.

The C code is the reference.  There are no tests, and the README of the
repository only lists keys, so the comments in the code are its documentation.

## 1. Inventory

`modules/` are kernel modules, `ipl/` is boot code, `bootcnf/` and `psptools/`
run on the developer's machine.

| component | state it keeps | interacts with | modules |
|---|---|---|---|
| `flashemu` | slot table, `flashemu_sema`, `need_wait` | memory stick driver (descriptors, EMFILE), suspend, iofilemgr | `FlashEmu` |
| `systemctrl/umd9660_driver.c`, `csoread.c`, `isoread.c` | image descriptor, `mounted`, caches, parameter globals, `umdsema`; the words of the drive it patches | stick, isofs, UMD driver | `UmdImage`, `UmdMount` |
| `systemctrl/isofs_driver.c` | `handlers[32]`, sector buffer, `isofs_sema` | UMD image reader | `ByteRanges`, `Isofs`, `IsoDirectory` |
| `systemctrl/main.c`, `sysmodpatches.c` | the chain of module start handlers, the checks of executables, the drivers of a title, the memory it gets, the status of its drive | every module of the system, the reboot | `StartHandlers`, `ExecFile`, `GameStart`, `NoUmd` |
| `systemctrl/init_patch.c`, settings | plugin list, settings | stick, flash | `BootPlugins`, `VshMenu` |
| `nidresolver` | tables of renumbered functions | loader of the kernel, `systemctrl` | `NidResolver` |
| `vshctrl/virtualpbpmgr.c` | table of virtual PBP files, open states, `vpsema` | isofs, ISO listing | `VirtualPbp` |
| `vshctrl/iopatches.c` | the directory being listed, icon cache of 32 entries and its file | virtual PBP manager, stick | `IsoListing` |
| `vshctrl/main.c`, `satelite` | settings, mounted image, USB state, the menu and its thread | usbdevice, systemctrl, the XMB | `VshMenu`, `VideoIsos`, `UmdMount` |
| `galaxy` | image descriptor, `FdMutex`, CSO caches | sceNp9660, stick | `Galaxy`, `CisoFile` |
| `usbdevice` | selected device, unassigned volumes, synthesised FAT | LFatFs, USB storage | `UsbDevice`, `UmdVfat` |
| `dcman` | board, NAND lock, cancel mode, format thread | NAND, idstorage | `Dcman` |
| `lflash_fdisk`, `ipl_update` | partition tables, boot blocks | NAND | `FlashFormat`, `IplUpdate` |
| `vunbricker`, `idsregeneration` | the page shown, the progress of a thread, the identification storage | dcman, NAND, stick | `FlashFormat`, `NandCopy`, `Install`, `IdsTools` |
| `ipl/common/fat.c`, `ms.c` | the one open file, sector buffer, geometry | stick hardware | `MsFat`, `MsCard` |
| `bootcnf` | none between runs | files | `BootConfig` |
| `popcorn`, `idcanager` | what the file of an old title was found to be, its keys | stick, flash2, the emulator | `OldTitle` |
| boot payloads, `syscon.c` | the buttons, the version of the board | controller of the power, stick | `BootChain` |
| `iop`, kernel bridge, `psptools` | hardly any | firmware | see section 11 |

What makes them hard, and what makes them correct:

* **flashemu.** Threads block inside the driver while other threads find
  descriptors exhausted and close them; the machine is suspended in between.
  Correct when a handle always reaches its own file at its own position and
  nobody waits for ever.
* **The image readers** (`systemctrl`, `galaxy`). The stick is taken out and put
  back during a read; caches outlive the descriptor.  Correct when a read that
  succeeds returns what it was asked for, and every request ends.
* **isofs.** Reads of any length at any position over sectors, and listings that
  share the buffer of sectors with every lookup.  Correct when a file is a range
  of bytes and a directory is the list of its records.
* **Mounting.** The words of a running driver are replaced and put back by two
  callers that do not know of each other.  Correct when the originals can always
  be had back.
* **The listing and its virtual files.** Names are tied to images by a number
  counted in two places, and what is shown may come from an old cache file.
  Correct when a listed name opens the image it shows.
* **The menu.** Three actors share the settings.  Correct when what it showed at
  the end is what is in use.
* **Starting a title, a module, the plugins.** Many small globals survive from
  one start to the next.  Correct when nothing of an earlier start is met.
* **usbdevice.** Volumes are taken from the system and must all come back,
  whatever fails on the way.
* **The tools.** Power may fail at any step, and so may any call.

The hazards, each at its line, are in `PROJECT.json`.

## 2. How the project is built, and the plan

A module models one component.  Where the cause of a hazard is in another one,
it knows of that component only what it uses of it: `VshMenu` mounts an image
in one step, `UmdMount` has the words that step changes; `FlashFormat` has
both the tables and the page that asks for them; `IsoListing` extends `VirtualPbp`, whose
slots its names refer to.

An `MC` module gathers the instances that belong together.  Its variable `part`
is chosen at the start and never changes: in a behaviour of one part the
variables of the others keep their first value.  The states of a run are thus
the sum of the states of its parts, and the conjunct of a property that begins
with `part = ...` is about that part alone.

Where the code makes no promise, a module says so by a **mark**: a Boolean
history variable that becomes true at the step after which the code no longer
knows what it does, and that the properties exclude by name.  Marks are not
bugs of the model; each is a place where the code relies on its callers or on
luck, and the comment at the mark gives the line.  Sections 3 to 9 list them.

Done: all the modules of the table above, and the proofs of section 10.  Left:
the remaining operations that section 11 names.

## 3. FlashEmu

### Model

One action stands for what a thread does between two calls that can block.

| model | code |
|---|---|
| `emu_files` | the array of the same name; `mode` is left out, it is only passed on |
| `flashemu_sema` | `Free`, the holder, or `Deleted` after `PreareRebootFlashEmu` |
| `iob[c]` | `i_private` of the handle of client `c`; a client has one handle |
| `pc`, `req` | where a thread is and its locals |
| `need_wait`, `assigned`, `hooked` | the flag; the volumes exist; the MSFAT driver is patched |
| `frz`, `frzFd` | the loop variable and the descriptor of `SysEventHandlerFunc` |
| `card`, `msfd`, `size` | the memory stick driver: mounted, its descriptors, its files |
| `unguarded` | history: the table may have been used without the lock |

`Enter*` are the first parts of the operations, up to the first call that
blocks; `WaitMS`, `SlotOpenOk`, `SlotOpenFail`, `SlotOpenFull`, `Evict`,
`Reseek` are `SlotOpen` and `SlotGetFd`; `Transfer`, `Close`, `PathIo` are the
call that the operation was made for, and the return.  `SlotCloseOneReadOnly`
and `HookClose` run in whatever thread found the descriptors exhausted.

Data are abstract: a file is its length, a transfer moves the position by one.
Files are named by a name and a directory, `DC9` or the fallback (`retail` or
`testingtool`, which of the two is fixed at boot).  `PathIo` is the seven
operations that make a single call on a path.

After a reboot has deleted the semaphore, requests share the global `path`,
which the model keeps per request.  Only the end of the waits is checked there.

### What the runs show

| run | instance | shows |
|---|---|---|
| `flashemu_slots` | 2 clients, 1 other user of the stick, 2 slots, 2 descriptors, 1 name with a fallback, read-only and truncating opens | `SlotsBacked`: an open slot has a live descriptor of its own on its own file. `HandlesOwnSlots`: handles do not share slots. `ShortenedOnRequest`: a reopen truncates nothing |
| `flashemu_suspend` | 2 clients, 2 slots, 2 descriptors, 1 suspend | `PositionKept`: only the client's own request moves its position. `SuspendClosesAll`: no regular file stays open. `TypeOK` |
| `flash_progress`, part `emu` | 2 clients, 1 other user, 1 descriptor | `FlashRequestsReturn`: a request returns, unless one hangs in the ways `Hung` lists |
| part `reboot` | 1 client, 1 other user, 1 descriptor, reboot at any moment | `RebootEndsEveryWait`: nobody waits for the lock for ever |

Two clients and one other user are enough for every pair of threads that can
meet: at most one is between `Lock` and `UnLock`, one waits for it, one takes
descriptors from outside.  Two slots and two descriptors make the table full
and the descriptors exhausted, each with a victim and without one.  One step of
length (`MaxSize = 1`) tells a truncated file from a written one and a saved
position from a fresh one.  In the liveness runs `MaxSize = 0`: data play no
part in progress.

`CHECK_DEADLOCK FALSE` where a request may hang or the system may come to rest:
the `trap` of an unknown ioctl, the hook waiting for the lock of its own thread,
and `SlotOpen` with nothing to close are what the code does.

The slots and suspend runs use `CONSTRAINT Guarded`: nothing is promised once
the table is used without the lock, so the states after that are not explored.
The view leaves out the fields of a free slot and the offset of an open one,
which are overwritten before they are read.

### Fairness

The kernel schedules ready threads by priority, and the code runs with all of
them blocked most of the time: a step that stays enabled is taken (weak
fairness of `Request`, `HookClose`, `AppOpen`, `Suspend`).  The semaphore is
created with attribute 0, which queues its waiters in order: a waiter that sees
it free again and again gets it (strong fairness of `Enter` and
`SlotCloseOneReadOnly`).  The stick is mounted in the end (`CardReady`), and
the reboot handler has a timeout (`PreareRebootFlashEmu`).  A thread waits for
the lock in one place at a time, so `MCFlashEmu` states one condition per
thread: weak fairness of `Run(t)`, strong fairness of `GetLock(t)`.

## 4. UmdImage

### Model

| model | code |
|---|---|
| `umdfile`, `umdfd`, `mounted`, `cso`, `discsize`, `discpointer`, `umdsema` | the globals of `umd9660_driver.c`; `Free` or the reader that has waited for the semaphore |
| `index` | `ciso_cur_index` and, for `ciso_index_buf`, the file and address it was read from |
| `buf` | `ciso_buf_pos` and, for `ciso_data_buf`, the file and address it was read from |
| `fds`, `card`, `Eject`, `Insert` | the stick and its descriptors: one opened before a removal is dead after it |
| `pc`, `req` | where a reader is and its locals; `tries` is the loop variable, `back` the loop that called `OpenIso`, `use` what the bytes are for |
| `res` | how the last read ended, compared with the sectors it was asked for |
| `steady`, `misled` | history, see below |

A reader of `Readers` calls `Umd9660ReadSectors2`; one of `UmdReaders` goes
through the driver `umd0:` and its semaphore.  `Probe` is the loop that mounts
the image or finds its descriptor dead; `OpenIsoClose`, `OpenIso`, `CisoOpen`,
`GetDiscSize` are `OpenIso` call by call, returning to the loop in `back`;
`RetrySeek` and `RetryRead` are `ReadUmdFileRetry`; `Use` is what its callers do
with the bytes; `CisoGetIndex`, `CisoReadOne`, `CisoInflate` are `csoread.c`.

Bytes are modelled by where they come from: a file and an address.  Addresses
are ordinal, as the head of the module says, so that a block is one unit and the
buffers hold `IndexSize` words and `BufSize` blocks; in the code a block has any
length up to a sector.  Past the index of a file any word may be found; bytes
that are no deflated block are refused or give some other data.  The requests of
`umd_read` may start below 0 or have a negative length, because `umd_lseek`
bounds the position only from above.  `malloc` succeeds.  The calls of one
`CisoOpen`, and of one `GetDiscSize`, are one step: they fail or succeed
together unless the stick is removed between them, which leaves what a removal
before them leaves.

### What is not promised

`misled` becomes true when the code no longer knows what it reads:

* two readers overlap, or `sctrlSESetUmdFile` overlaps with one: they share the
  descriptor, and `umdsema` and the lock of isofs are two different locks;
* the header of a compressed image cannot be read: `CisoOpen` gives the answer
  it gives for a plain image, which is what the image is then taken for;
* a read succeeds after one that failed: the new descriptor stands behind the
  header and nothing seeks again.

The properties about data stop there.  Everything else must be right: removals
at any other moment, changes of the image, a cache left by another image.

### What the runs show

| run | instance | shows |
|---|---|---|
| `umdimage`, part `disc` | 1 direct reader, compressed images of 2 and 3 sectors and a plain one, one sector stored undeflated, 2 descriptors | `ReadsRight`: a read that succeeds returned its sectors. `CachesAgree`: the buffers hold what their positions say. `OneDescriptor`: none is lost. `ReadsRecover`: with the stick in, a read of existing sectors succeeds, whatever went before |
| part `seek` | 1 reader of `umd0:`, a compressed and a plain image of 2 sectors, a buffer of 1 block, seeks | `ReadsRight` from positions on both sides of the disc, and the others |
| `disc_progress`, part `umd0` | 2 readers of `umd0:`, a plain image of 1 sector | `DiscRequestsEnd`: the loops end, stick or not, and the semaphore is handed on |
| `umdimage_reread` | 1 reader, 1 compressed image | a violation of `BufPosIsPosition` |

`MaxTry` is 2, for 16 in the code: one try that fails and one that succeeds, or
two that fail; each further one repeats the second.  With 1 the reader could
never recover.  Three sectors with windows of 2 words and 2 blocks give a hit, a
miss behind the window and one before it, and a deflated sector whose next index
word lies in another window.  `MaxLength` bounds positions and lengths of
requests, and a seek stops at -1.  `CONSTRAINT Guarded` leaves out what follows
once a reader is misled.  `CHECK_DEADLOCK FALSE`: requests may stop coming.

`BufPosIsPosition` is what the comment at `csoread.c:53` says of
`ciso_buf_pos`.  The run finds: a block is to be read, the seek succeeds, the
stick is removed, the read fails, the stick is back, `OpenIso` succeeds, the
read is repeated behind the header of the file, and `ciso_buf_pos` is set to the
position of the block.  Sectors are then inflated from the wrong place.

### Fairness

A reader whose next step can be made makes it (weak fairness of `Step`), as in
FlashEmu; `umdsema` has attribute 0 and queues its waiters in order (strong
fairness of `Lock`).  `sctrlSESetUmdFile` is not interrupted for ever.  Nothing
is assumed of the stick: the requests end although it never comes back.

## 5. The files of the disc: ByteRanges, Isofs, IsoDirectory

`ByteRanges` is the abstract specification: an open file is a range of bytes of
the image and a position that only requests on that file move.  `Isofs` is the
code: `handlers` and `isofs_sema` are the globals, `iob[i]` is `i_private`, an
operation is one step except where the semaphore is let go in the middle
(`isofs_dopen`, the result of `isofs_lseek`) or kept (`isofs_ioctl` with a short
buffer, recorded in `kept`).  Its `Read` is the arithmetic of a partial first
sector, whole ones and a partial last one, with a sector that fails anywhere.
The io manager of the kernel, which is not in this repository, opens and closes
one request at a time on a file and does not close one that is in use: that is
the only thing assumed of it.  A torn read of the tail and positions before the
beginning are outside the promise.

`IsoDirectory` walks: `find` is the local state of `FindFileLBA`, `handle` that
of `isofs_dread2`, `user` whose window is in the buffer.  Sectors have 4 units
and records 1, 3 or 4, the window 2 sectors for 8 in the code, so that a record
starts a new sector, a directory ends exactly at one, and a window is left and
entered again.  A read that fails inside a listing is ignored by the code and
recorded in `misled`.

| run `isofs` | shows |
|---|---|
| `HandlesOwned` (part `share`: 2 threads, 2 files, 2 handles) | each open file has a handle of its own and no handle is lost, however dopen is overtaken |
| `LseekAnswers` | the position answered is the one set |
| `ReadsByteRanges` (part `read`: files of 8 and 6 bytes in sectors of 3, a directory; lengths and positions to 9) | refinement: `Isofs => ByteRanges` under `INSTANCE ... WITH` in `Isofs` |
| `DirectoryWalked` (part `walk`: every directory of up to 6 records) | a listing returns the records once and in order although lookups move its window; a lookup that ends has found the name if and only if it is one of the records the walk reaches (not one too long, nor one behind a sector that ends early); nothing behind the directory is taken for a record |

Part `isofs` of `disc_progress` checks `DiscRequestsEnd` for two threads:
`isofs_sema` too has attribute 0, hence strong fairness of its waiters.

## 6. Images in the drive, titles and modules: run `umdmount`

| part | module | model and code | properties | bounds |
|---|---|---|---|---|
| `drive` | `UmdMount` | `word[1..6]` are the patched words of the UMD driver, `restore` what `DoAnyUmd` saved; `pc` where the thread of the menu and that of USB are; the actions are `DoAnyUmd`, `sctrlSEUmountUmd` and `sctrlSESetDiscOut` cut at their delays, the callers in `vshctrl`, and the read of the UMD thread | `OriginalsKept`, `MountedServed`, `RequestsServed` | 2 images, 2 disc types, a sector of 2 bytes, requests of up to 5 |
| `galaxy` | `Galaxy` | `umdfd`, `FdMutex`, `npfd` the copy the closed module holds; `Step` goes from call to call of `OpenIso` and the retry loop | `ImageServes` (`OneDescriptor`, `ModuleKnows`, `BytesWanted`) | 2 readers, the mount thread, a close, 2 descriptors, 2 tries |
| `cso` | `CisoFile` | `start` the index of the image, the window and the buffer as in the code, `request` and `data` what is read and what has come of it; `First`, `Sector`, `Rest` are the three parts of `CisoReadFile` | `ImageServes` (`BytesRight`) | 3 sectors, blocks of 1 to 3 bytes in every order, and blocks that are shared, out of order or apart; window 2, buffer 4 |
| `title` | `GameStart` | `config`, `vsh`, `sys`: the settings in the area and its two copies; `bootfile`, `ram2`, `exec`, `umd`, `isofs` the globals and drivers | `TitleStarted` (`ImageServed`, `NothingLeft`, `MemoryAsked`) | 2 images, one with a path too long, any number of reboots |
| `noumd` | `NoUmd` | `drivestat`, `assigned`, `umdcallback` | `TitleStarted` (`CallbackTold`) | 2 threads |
| `hooks` | `StartHandlers` | `stmod_handler` and `previous` are the chain; `start_thread`, `last_module` what the create hook noted | `ModuleStarted` (`HandlersCalled`) | 2 modules, 2 thread numbers, 4 handlers |
| `exec` | `ExecFile` | `check` the record the patched calls share, `pos` of the descriptor, `buf` the buffer of all loaders | `ModuleStarted` (`ExecRight`) | 2 loaders; every kind of file alone, the kinds of `Few` at once |
| `link` | `NidResolver` | `imports`, `exports` the records in memory, one behind the other, `at` how many of them the loop has passed | `ModuleStarted` (`NamesKept`) | 2 libraries; tables with numbers that are old, new, shared |
| `old` | `OldTitle` | the five reads of `popcorn`; `SetKeys` of `idcanager` from call to call, `keysbin` the file it keeps, `lost` the descriptors left open, `flash2` the volume it takes | `TitleStarted` (`OldTitleRight`: the keys are the title's after any failure or power cut, flash2 comes back, the emulator gets an icon it can show and deciphers what is enciphered) | 2 descriptors, one title, every call of the stick may fail |

The menu gives the pad back (`vshmenu_ctrl` is NULL) before it unmounts and mounts,
so its calls and those of the USB thread interleave at every delay of the driver, and
the pad may end the menu's thread where it is.  Marks of `UmdMount`: `refused`
(`sctrlSEUmountUmd` refuses an image that was never read, or whose name the removal of a
title has cleared, and leaves the patches; the next mount saves them as originals),
`crossed` (USB mounts again over what the menu mounted), `mixed` (a call of one thread
begins before the other has done more than wait for its last delay), `cut` (the menu's
thread ends within its call), `overlap` (a read meets an unmount, which frees the buffer
50 ms before it takes the patches away).  `OriginalsKept` says that these are the only
ways to lose the code of the driver.  Of `Galaxy`: `clash` (the mount thread, which opens the image without the
mutex, beside a request or a close), `headless` (a header that cannot be read makes
a plain image), `reread` (a repeated read without a seek).  Of `GameStart`:
`leftover` (the list of a start that failed is taken by the next reboot),
`blind` (settings that could not be read), `carried` (memory asked for by an
earlier title); an image whose path does not fit its field (`Long`) is outside
`ImageServed`: the settings and the number of the list overlap in the area.  Of
`NoUmd`: `met`.  Of `StartHandlers`: `overlapped`, `abandoned`, `cut`, all from
the one pair of variables that ties a thread to a module.  Of `ExecFile`:
`overlapped` (the shared buffer), `unread`.  Of `OldTitle`: `misread` (a failed read
of a header that is not looked at), `refused` (the emulator did not take the keys;
those out of a licence are answered all the same).

The tables of `nidresolver` are over a thousand lines of pairs.  The instance has rows that
stand for them: no number is both old and new, and old ones may share a new one;
both hold of the real tables.  What the kernel itself checks of an executable
is a choice.

Part `galaxy` of `disc_progress` checks `GalaxyAnswers`: if the stick stays from
some moment on, every request is answered, although the one that waits holds the
mutex.  The stick is assumed to stay because the loop has no other end.

## 7. Listings and virtual files: run `isolisting`

`VirtualPbp` is the manager: `slots` and `states` are `vpbps` and `states`,
every call holds `vpsema` throughout and is one action.  The assembled file is
a sequence of units, each named by its owner, its part and its place, so that
`BytesRight` compares every read with the file that should have been assembled.
`IsoListing` extends it with the directory being listed, the numbers given to
names, the cache (`Cache`, `IsCached`, `ReadCache`, `SaveCache`) and its file, the
deletion of a listed image, the stick and the power.  `Through` is what a read or a
write of the cache file may get through of the cells, the call that fails included.

| part | instance | shows |
|---|---|---|
| `names` | 4 images, one with a name that begins with a dot, one broken, 2 slots, cache of 1, mounting, deletions | `NamesRefer`: a listed name opens the image it shows, unless a dotted name has shifted the numbers (`Drifted`, what the code does). `MountKept`. `ListsEvery`: each good image once |
| `cache` | three listings of 3 images for 2 cells, images replaced between them, reads and saves that fail or are cut short, power cuts | `CacheTrue`: what is shown is what the image holds now, and a saved cache spares the work |
| `read` | 2 descriptors, 2 slots, 3 images, reads of 3 and of 9 units, seeks to 0 and 4, a deletion, resets | `VirtualFilesRight`: the bytes. Images without a disc id show the last one (`Anonymous`) |
| `list` | 2 descriptors on virtual directories of the same slots, deletions, resets | `VirtualFilesRight`: both names each time, if the last listing ended |

Files and directories are opened in different parts only to keep the run small; the
lemmas of section 10 about the actions of the manager admit both at once.
There is one listing at a time: the XMB lists from one thread.  What a reader
may believe of a file that another one has opened too, or that a reset took away,
is not followed (`shared`, `lost`).  An abandoned
listing drops from the cache what it did not come to.  Of the four images of `names`
two have names of their own, so that the second number, and a third image that finds
the table full, occur without a dotted name; in `cache` two cells for two good images
are enough, and a replaced image finds no free cell.

`MountKept` excludes three things that change the UMD file under a video image and
leave it mounted, which `swapped` records: an image that cannot be added, a read of a
file that was open before, and the deletion of a listed image, after which there is no
UMD file (`virtualpbpmgr.c:633`), whether the stick let the file go or not.
`CacheServes` is about listings that read the cache file as a whole: after sixteen
opens that failed, or a short read (`iopatches.c:87-99`), the cells start empty and the
images are worked out again (`short`); `SlotsTrue` holds then too.

## 8. USB, the menu, and what the boot reads: run `usbdevice`

| part | module | shows | bounds, marks |
|---|---|---|---|
| `device` | `UsbDevice`: each kernel call of `pspUsbDeviceSetDevice` and `pspUsbDeviceFinishDevice` is a step that may fail | `DevicesRight`: no volume stays taken but the stranded ones, the host is never served by functions whose buffer is gone | 4 volumes. `stranded`: an assign failed, and with it all behind it (a second finish is refused at the first volume that is there), or a device set over another forgot what that one took; `nested`: until the functions of the second are in place |
| `seek`, `stream` | `UmdVfat`: the made-up FAT and the reads of the disc | `VolumeServed`: what the host reads is the disc; the chain covers the file; a host that reads on never meets `astray` | discs of 1, 3, 4 sectors, 1 to 6 sectors a request. `astray`: the code goes by the sector before last |
| `menu` | `VshMenu`: the pad, the menu thread, USB | `MenuObeyed`: what the menu showed when it closed is in use; the image taken for USB comes back; the settings are saved | 2 images, one button at a time, `MaxMoves = 2`. Marks `early`, `cut`, `blind`, `unsaved`, `emptied`, `switched`, `crossed`, `nodevice` |
| `videos` | `VideoIsos`: the cached list of the menu | `VideosListed`: shows nothing that is not there, and everything there is room for | 3 files, 3 types, 4 changes, cache of 2. `misread`: a file could not be read; `stale`: how many entries of the cache file no file has |
| `boot` | `MsFat` | `BootRead`: an open finds the file of its path and no other, reads are the file from its beginning | FAT16 and FAT32, entries across clusters, deleted entries, long names. `lost`: a table sector that could not be read |
| `card` | `MsCard`: the command, the words, each wait | `BootRead`: a read that succeeds is the sector; a write changes no other | 2 words a sector, sectors 1, 2, 5. `late`: after a time-out the card is still at the earlier command; `ended` |
| `plugins` | `BootPlugins`: the parser of the list, the conditions, the start | `PluginsStarted`: those of the list once, in its order, after their drivers | a buffer of 8 characters, 2 lines, the lists of the module. Names have any length: the 64 bytes the code copies one into (`init_patch.c:215`) are not modelled. `astray`: in the mode of old titles a pointer is not set |
| `config` | `BootConfig`: text to binary and back | `BootRead`: the text comes back; a module is loaded in its modes | texts of up to 3 lines, names inside longer names. A line behind a blank one is taken twice, a name alone takes the next line: `ModulesFromLines` says where that does not happen |
| `chain` | `BootChain`: the commands of stage 1, `msipl` and stage 2 to the controller of the power, and what each makes of the answer | `BootRead`: the combinations of the repository's README choose what they say there, an answer that does not come is no button; `msipl` loads the file of the model | a board of every file, nine ways to hold the buttons. `damaged`: a damaged answer whose first byte is 0 is believed; `unread`: `msipl` asks for the version once, and three processors need it |

`CONSTRAINT Bounded` cuts the requests of the host and the moves in the menu.
The waits of `MsCard` without a count are not modelled as failing: they end or
the boot hangs.  The write of a sector has no caller in the repository.

## 9. The tools: runs `flash` and `flash_boards`

| part | module | shows | marks and bounds |
|---|---|---|---|
| `ipl` | `IplUpdate`: a step is a block erased or written; blocks fail, the power goes | `LoaderRight`: a loader that was set is read back; at any moment the boot finds a whole loader or none | an area of 7 blocks, 2 mirrors, loaders of 2 and 3 blocks, up to 2 bad blocks. `wrapped`: no good blocks left; `stale`: an old table in a bad block comes first |
| `tables` | `FlashFormat`, a function of the request in 2^w arithmetic | `PartitionsRight`: the partitions asked for, inside the drive, apart from each other | every request of 1 to 4 sizes of 0 to 4 on drives of 5 to 30 sectors. `Overdrawn`: more is asked for than there is, and the sum wraps |
| `format` | `FlashFormat`, over those tables | `PartitionsRight`: the sizes shown fit and are the ones made, no suspend in between | 3 partitions, for 4 in the code, that share 5 cylinders |
| `copy` | `NandCopy` | `NandCopied`: a dump is the flash, a restore puts it back, a cancelled dump cannot be restored, locks are let go | 5 blocks, chunks of 2. `lost`: results of the stick that are not looked at, and a page of a good block that could not be written (`dcWriteNandBlock` drops the result); `trapped` |
| `install` | `Install` | `Installed`: an installation called complete is; a loader that was set has the files of its firmware beside it at any moment, and those of M33 | 3 models, each kind of file once. `lost`; `wiped`: a later install has formatted; `ahead`: the loader is written before the files of M33, among them the lists of modules `pspbtcnf*_umd.bin` and `*_recovery.bin` that it opens; an error or a cut in between leaves it without them |
| `ids` | `IdsTools` | `IdsRight`: every leaf of the board with what belongs in it; the messages are true | two boards, the regions 3 and 5, leaves written 8 at a time. `late`, `shared` |
| `dcman` | `Dcman` | `IdsRight`: the board that the table names, the answer of a call is its own | every row of the table of boards; 2 callers on one board. `met`, `unmade`, `between` |

A call that fails shows an error and the user may begin again: the parts go
round any number of times, so each begins with what earlier attempts left.

`flash_boards` finds `KeysOfBoard` violated: `dcman` and `idsregeneration`
number the boards apart, and one number means two boards.  The comments of
`idsregeneration` say which board the keys are for; the finding quotes them.

`CHECK_DEADLOCK FALSE` in the runs of sections 3 to 6 and 9, except
`flashemu_suspend`: requests may stop
coming, a title hangs where the code has a `trap` or an endless loop, users stop
acting.  In those of 7 and 8 deadlock is checked.

## 10. Proofs

TLC checks the instances of the sections above; the theorems below hold for
every value of the constants that satisfies the named assumptions of the
modules.  What the marks exclude is excluded there too.

| module | theorems | for any |
|---|---|---|
| `FlashEmuProofs` | `TypeCorrect`, `OpenSlotsBacked` (`SlotsBacked`), `SlotsOwned` (`HandlesOwnSlots`), `SuspendCloses` (`SuspendClosesAll`), `PositionsKept` (`PositionKept`), `ShortenedByRequests` (`ShortenedOnRequest`) | clients, other users, slots, descriptors, names, lengths |
| `UmdImageProofs` | `SpecIInv`, `SpecOneDescriptor`, `SpecReadsRight`, `SpecCachesAgree`, `SpecReadsRecover` | readers, images, lengths, windows, stored blocks, tries |
| `IsofsProofs` | `SpecIInv`, `SpecTypeOK`, `SpecHandlesOwned`, `SpecLseekAnswers`, `SpecByteRanges` | threads, files, handles, sizes of a sector, positions, lengths |
| `UmdMountProofs` | `SpecIInv`, `SpecTypeOK`, `SpecOriginalsKept`, `SpecMountedServed`, `SpecRequestsServed` (`UmdMount`); `SpecStartInv` (`GameStart`), `SpecDriveInv` (`NoUmd`), `SpecOldInv` (`OldTitle`), `SpecTitleStarted`; `SpecHookInv` (`StartHandlers`), `SpecExecInv` (`ExecFile`), `SpecLinkInv` (`NidResolver`), `SpecModuleStarted`; `SpecGalaxyInv` (`Galaxy`), `SpecCsoInv` (`CisoFile`), `SpecImageServes` | images, disc types, sizes of a sector, requests; images and paths too long; threads, callbacks; descriptors; modules, thread numbers; loaders; tables of numbers, imports, exports; readers, descriptors, tries; layouts of an index, sizes of a sector, the window and the buffer |
| `IsoListingProofs` | `SpecIInv`, `SpecListTypeOK`, `SpecNamesRefer`, `SpecMountKept`, `SpecListsEvery`, `SpecCacheTrue`; `SpecVirtualInv`, `SpecVirtualFilesRight` (`VirtualPbp`) | order of the directory, images, table, cache, number of listings; sizes of the files of an image, lengths of reads, places, descriptors |
| `FlashProofs` | `SpecIInv`, `SpecLoaderRight` (`IplUpdate`); `SpecCopyInv`, `SpecNandCopied` (`NandCopy`); `SpecInstallInv`, `SpecInstalled` (`Install`); `SpecDcmanInv` (`Dcman`), `SpecIdsInv` (`IdsTools`), `SpecIdsRight` | loaders, areas, mirrors, bad blocks; blocks, chunks and errors of a dump; models, lists of files and drivers; callers; boards, regions, leaves written at a time |
| `UsbDeviceProofs` | `SpecDevicesRight` (`UsbDevice`); `SpecVolInv`, `StreamsNeverAstray`, `SpecVolumeServed` (`UmdVfat`); `SpecMenuInv`, `SpecMenuObeyed` (`VshMenu`); `SpecVideosInv`, `SpecVideosListed` (`VideoIsos`) | flash volumes; discs, layouts of the volume, lengths of requests; images, listings, speeds, buttons; names, types and changes of video images, cells of their cache |

Each proof has the same form: an invariant `IInv` that is inductive, a lemma for
each action that says the action keeps it, and for each property the short step
from `IInv` to it.  `IInv` was checked by TLC on the instance of the run before
it was proved.  Why it is needed, and what it adds:

**FlashEmu**, from the six assumptions on its constants.  `TypeOK` is not
inductive: a request on a handle uses `iob[c]` as an index, so `TypeInv` adds
`ShapeInv` (which requests have a handle, and at which labels) and `PathInv` (a
request and a slot in use carry a name).  `IInv` adds, while the lock is in use:

* `MutexInv`: who is between `Lock` and `UnLock` holds the semaphore, and nobody
  does while the suspend handler goes through the table;
* `Local`: what the locals of a client inside say of the table is still true:
  the slot chosen for an open is still free, the descriptor that is read from or
  closed is still that of the slot;
* `Orphaned`: the descriptor that the hook or the suspend handler has taken from
  a slot and is about to close backs no other slot;
* `AllBacked` and `Owned`: the properties.

`PInv` adds `Kept` (wherever the position of a handle is kept, in the descriptor,
in the slot or in the locals of the reopen, it is the client's) and `Closing`
(what the suspend handler has passed is closed).  A client inside is alone
(`Alone`), so what it does to the table concerns nobody else (`InsideFrame`); a
client outside stays outside or enters when nobody is inside (`OutsideFrame`);
the hook and the suspend handler only close slots (`ClosedFrame`,
`BackedFrame`).  `PositionKept` and `ShortenedOnRequest` are action properties:
they follow from the invariant at the step.

**UmdImage.**  `BasicInv` holds whatever happens: types, the owner of the lock,
and the bounds of each request (`Good`), which say that no request reaches past
the last sector.  `SafeInv`, until the reader is misled, says of each label what
the buffers, the descriptor and the locals know of the image: which word of the
index was found, that a buffer belongs to the descriptor that is open or is
invalid.  Several readers are admitted; as they overlap they are misled, so
`SafeInv` speaks of one request at a time.  `SpecReadsRecover` has two hypotheses
of its own: at least two tries (the code has 16; with one the reader never
recovers) and a descriptor to be had.  It carries `SteadyInv`: with the stick in
since the request began, a descriptor that fails is found dead at the first try
and the second one succeeds.

**Isofs.**  `RequestsInv` ties each request to the file it is made on and to what
the io manager assumed in section 5 does; `isofs_dopen` lets go of the semaphore
between its two halves, and the invariant says what a thread there may rely on.
`SpecByteRanges` is the refinement: `ranges` maps the handles to byte ranges, the
initial states correspond, and each step is a step of `ByteRanges` or changes no
range.  The arithmetic of the partial first sector, the whole ones and the rest
is proved for every size of a sector.

**UmdMount.**  `WordsInv` says that of the two threads one works at most until a mark is
set, and that what it is about to unmount is served; `PlaceInv` follows each through the
words it has patched; `GuardedInv` says between their calls which words are saved; and
`RequestInv` which bytes a request has read and which it still needs, for
requests that begin and end anywhere in a sector.  `SpecRequestsServed` is about
a request that neither an unmount nor a mount has met.

**IsoListing**, from `VirtualPbpAssumption` and `ListingAssumption` (the directory
names each image once).  `NamesRefer` needs that the number of the next name is
the number of slots, which holds only while `ms0:/ISO` is open (`Counted`), and
that no image has two slots (`Distinct`), for which the slots must lie among the
entries that were read (`Among`): a listing closed part way goes on later, with
another list of names.  `ListsEvery` needs to know of every entry passed over
that it found the table full (`Every`), and ends with a count: a full table of
different good images, without one of them, leaves more good images than slots
(`FullTable`).  `CacheTrue` needs that a cell has one date only (`Entry`: a torn
one is of date 0, which no image has), that what this listing referred to is true
now (`Referred`), that a cell which came from the file is there as a whole or is of
date 0 (`FromDisk`), and what was saved (`WarmInv`).

**VirtualPbp**, from its assumption: an image has five files, of any sizes.  The
bounds of the seven parts are sums, so that each part begins where the one before
ends (`PartsFollow`), and the file a reader should see is put together along the same
bounds (`WholeIs`).  A read passes through the parts in order.  After each, what was
read is right so far (`Right`), counted (`Tallied`), and nothing is wanted any more or
the position is at the end of that part (`Spent`): `TakeCounts` is that step, for an
empty part and one that the read only begins in as well, and `AssembleIs` is the seven
steps.  `VirtualInv` is what makes a reader's belief true: a handle that nobody shares
and no reset took away stands at the position of its slot, or has listed what the state
of its slot says; and of two handles of one slot, open for the same, each knows of the
other (`Sharing`), although a reset has taken one of them away.

`UmdMountProofs`, `FlashProofs`, `UsbDeviceProofs` and, for the virtual files,
`IsoListingProofs` extend the MC modules, whose constants have
their values in the cfgs, and are about the instances there for all values of
those constants.  A part of such a module is a specification of its own: while
`part` names it, a step of the whole is a step of that part, so that its theorem
carries over, and no other part says anything of its conjunct.  `SpecLoaderRight`,
`SpecNandCopied`, `SpecInstalled`, `SpecIdsRight`, `SpecVolumeServed`, `SpecMenuObeyed`, `SpecVideosListed`,
`SpecTitleStarted`, `SpecModuleStarted`, `SpecImageServes` and `SpecVirtualFilesRight`
are theorems about `AllSpec`, the specification of the runs.

**GameStart**, from `ImagesAssumption`.  `StartInv` goes along the list of modules: before
each of them it says whose driver and file system are there, whether the driver was
hooked, and what memory was given (`Booting`, `XmbBooting`), and what of it the last
one leaves (`Runs`, `XmbRuns`).  `OwnDrivers` ties that to the choice: the image is
the title's, and the list is the one its mode asks for (`List`), or, while a list is
left of a start that failed, the title is one that asks for none; then it must not
matter which list it is.  That the two copies of the settings agree when a title is
chosen is `sys = config` of the last module and `vsh = sys` of the XMB, until a read
of the settings fails (`blind`).

**NoUmd.**  `DriveInv` says what a thread inside a call has done so far (assigned, told or
not yet), as long as no two were inside at once (`met`).  **OldTitle.**  `OldInv` adds to
`KeysRight` that keys are there only when `SetKeys` is over, and that no step past the
licence is reached but by an original title, so that `KEYS.BIN` holds the title's
keys, a part of them, or nothing.

**StartHandlers**, from its assumption: none of the names is that of nobody.  `ChainInv`
says that the handlers stand in a line, which of them comes before which, and what
becomes of it between the call that registers one and the assignment of its answer,
when the handler registered last calls nobody.  Who is called for a module is the
least set that holds the last handler and whomever one of them calls; on a line that
is the whole line (`LineReached`, `AllMet`).  `StartNoted` ties the thread that was noted to
the module that was, as long as no second start began and none was given up, and
`Seen` says who has been called for each module so far: nobody before it started,
afterwards all who were registered.

**ExecFile**, from its assumption about what is loaded: the titles are among the files.  `ExecAttributes` and `ExecPlaces`
say what a loader that has come so far knows of its file; `ExecBuffer` says, as
long as no two loaders were inside `PartitionCheckPatched` at once, that the static
buffer holds what the one inside has read, and where its descriptor is to stand
again when it leaves.

**NidResolver**, from its assumption (no number is both old and new, or old twice).
`LinkInv` says that the records that were walked have the new numbers of the names
they have now, which a handler may have changed a moment before, and that the rest
is as it was loaded.  That the kernel then links what `sctrlHENFindFunction` finds
(`LinkedAsFound`) is about two searches of the same exports (`FirstFound`, `Renumbers`).

**Galaxy**, from its assumptions: the threads differ, there is a try.  `Owned` says that a
thread between `LockFdMutex` and `UnlockFdMutex` holds the mutex; the mount thread opens
the image without it.  Until those two meet (`clash`), `Single` says that the copy of
the closed module is `umdfd`, that no other descriptor is open, and none at all
while another is looked for.  `Format` ties the format to the image from the header that was
read on, and each request to the format it began with; `Placed` says where the
descriptor stands before a read, unless the read is a repeated one.

**CisoFile**, from its assumptions about the sizes (the buffer has room for a sector) and
the layouts (a deflated block is no longer than a sector, nor than what the index leaves
it where the difference of two words is a length at all; where it is not, since sectors
may share their blocks, the code takes a whole sector, and so does the proof: `Need`).  `Truly` says that the window
and the buffer hold what their positions say, whatever failed or was opened
anew in between, so that the word of a sector is found in the window
(`WordFound`), its block in the buffer (`BlockThere`), and `ciso_read_one` gives that
sector (`SectorRead`).  `Asked` keeps the request at the sector its bytes have come to: at
the beginning of one from the first piece on, until all of them are there.

**IplUpdate**, from `IplUpdateAssumption`: the mirrors lie before the data, each
loader fits, and the area is no larger than the page numbers reach.  The invariant
is the order of the writer: while the area is cleared the tables that are left lie
behind the block it is at, so they are gone before the data they name (`ClearInv`);
while data is written there is no table and what was entered stays (`DataInv`);
every mirror written afterwards holds this table, whose blocks hold the loader
(`MirrorsInv`).  A power cut then leaves one of these.

**NandCopy**, from its assumption that there is a block and room for one in the
buffer.  `CopyInv` says in which pages and steps the thread runs and the flash is
locked, and, until a call has failed that nobody looks at (`lost`): a dump has
written the blocks before the first of the buffer, in their order; of a restore
the flash before the block that is written is the file, bad blocks apart, the
buffer begins at the first block of a chunk, and `Chunk(at)` says how far into it
the writer is.  That a chunk ends where the next begins, and the last at the end
of the flash, is the arithmetic of `at % Fit`.  Nothing more is known of the file
once a dump has been cancelled than that it is too short to be restored.

**Install**, from its assumption.  `InstallInv` knows which files are whole before
each step of the thread, until a short write has gone unseen (`lost`): none when
the flash has been formatted, those before the k-th of its list while a list is
copied, all of the base when the boot blocks are written, and the loader is new only
from there on.  That a loader that was set has the files of its firmware then holds
at every step that copies a file or sets a loader, and wherever the power goes; that
it has those of M33, from the last of them on (`ahead` is set until then).

**Dcman**, for any callers.  `DcmanInv` says of a caller that nobody met inside that it
is alone there, so that the result the thread leaves is its own, and of the thread that
formats that its caller has not forgotten it.  That a row of the table which fits what
the chips answered is the row of the board (`RowOfBoard`) is a case for each pair of rows.

**IdsTools**, from its assumption on the boards and regions.  `IdsInv` has five parts, one
for each kind of promise: which thread runs on which page (`IdsThreads`), when the page
has the address it asked for (`IdsAddress`), which leaves and keys are written before
each step of the maker (`IdsStorage`), what the buffer that the threads share holds while
one of them needs it (`IdsMessages`), and that a suspend is refused from the loading of
the driver to the end (`IdsSuspend`).  A new storage goes up in batches, of any size: the
keys before the present one are written, and the next batch joins them (`RangeJoin`).
That every leaf of the index is then written is a case for each board (`LeavesWritten`).

**UsbDevice**: what was taken is on the list of the device in use or already stranded,
and while a device is finished it is among those still to give back or stranded, although
a second finish finds a list that is out of date (`DeviceInv`).

**UmdVfat**, from its assumption: the layout has room for the disc, clusters and
table sectors are not empty.  `VolInv` is the buffer of `ReadUmdSector`: it holds
the sector it is said to hold, unless the drive was elsewhere.  A read is three
parts (`ReadsBegun`, `ReadsWhole`, `ReadsEnded`), each of which gives the sectors
from where it is on and leaves the rest of the request to the next; `PartsJoin`
puts them together, for any place and length.  `StreamInv` adds where the drive
stands when a host reads on (`Placed`): at the sector the next part begins in, or
behind it when that part is in the buffer.  `NeverAstray` follows, which does not
hold for a host that seeks.  `TableChains` is about the table alone: the entry of
each cluster, by the quotient and the rest of its number.

**VshMenu**, from its assumption that the listings are sequences of images and
that none of them is `NoIso`.  Three actors write the same variables, so each part
of `MenuInv` is a relation between what two of them have: `MenuThread` (the module
is there as long as its thread and its hook), `MenuShown` (what the menu shows is
what was chosen, and what was mounted unless the line was moved), `MenuSettings`
(its copy of the settings, the file and those in use agree, each from a step of
the thread on, but for the lines that were moved), `MenuReturn` (an image is kept
for USB only while USB is on) and `MenuDrive` (the drive serves the image vshctrl
takes for mounted, between its two calls as well).  The marks stand where they do
in the properties.

**VideoIsos**, from its assumption that the names are finitely many.  `StickInv` gives
each file the time of a change that was made; `EntriesInv` says of the cache file and
of the cache that no entry is from the future, that one with the name and the time of
a file has its type, and that no two are of one file: a change makes entries stale and
never current again (`ChangedEntry`), and a save that is cut off leaves an entry with the
time of no file (`TornEntries`).  `ListInv` follows the directory: what is referenced has
been given, and what has been given is referenced, could not be read, or found no
room (`Met`).  That a cache without room for one image holds too many stale entries
is a matter of counting (`RoomForAll`), and so is that the entries moved to the left
are those that were referenced, each once (`Ranked`, `PurgedEntries`).

Only model-checked:

* liveness (`DiscRequestsEnd`, `GalaxyAnswers`, `FlashRequestsReturn`,
  `RebootEndsEveryWait`): TLAPS cannot reason about fairness;
* what recursion or a fold over data computes: `DirectoryWalked`, `BootRead` (paths,
  boot lists), `PluginsStarted` (the parser of the list),
  `PartitionsRight` (sums of sizes).

No module declares a RECURSIVE operator.

## 11. Not modelled

`PROJECT.json` has a note for every component.  In short:

* `iop` and the kernel bridge (a call each, with the privileges changed around
  it): they keep no state.
* The ciphers and decompiled arithmetic of `idsregeneration`, the key data, the
  tables of numbers of `nidresolver` row by row.
* Patches of closed modules at fixed offsets, in `systemctrl`, `popcorn`,
  `vshctrl` and the boot payloads: what they change is code that is not here.
  Of `popcorn` the place in the chain of handlers, what it finds in the file and
  what it gives to the emulator are modelled, of the boot payloads what the
  buttons and the board choose, and the list of modules.
* Hardware registers that one processor polls with interrupts off (`kirk`,
  `uart`, `sysreg` of `ipl`, those below a command of `syscon`), the formatting of messages, drawing.
* Of the image reader: `umd_exit`, `umd_ioctl`, `umd_devctl`, the modes that
  replace the whole driver, the one-sector cache, which only dead code fills.
* Of `isofs`: `isofs_reset` and `isofs_exit2`, which nothing calls; the walk
  along a path, which repeats `FindFileLBA`.
* Of `vshctrl`: calls that only choose between the manager and the io manager,
  the hiding of corrupt icons, the version in a PARAM.SFO, the parsing of one,
  the clock speed.
* Of the plugins: the memory behind a name longer than the 64 bytes of its buffer.
* Of `dcman`: strings patched in the memory of a module, the address of the
  network chip taken from the radio driver.
* Of `vunbricker`: the page of hardware information and the progress bars.
* Of the FAT reader of the boot: 12-bit tables, the letter case of names.
* `psptools`: scripts that pack and sign.
