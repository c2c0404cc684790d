# Verification of RIG

RIG (Ralf's Image Gallery) is a PHP program that shows the photo albums of a web site, with a small C++ program that
makes thumbnails.  It has no database and no server of its own: every HTTP request is a PHP process that starts from
nothing, and whatever requests share is in files: the albums themselves, `options.txt` files, thumbnails, and cached
HTML pages.  No file is ever locked.

The thumbnail program reads and writes JPEG files with libjpeg 6b.  Its source is in the tree (`thumbnail/jpegsrc/jpeg-6b/`), is built
and linked where the system has no libjpeg, and is most of the code there is.

This directory holds TLA+ models of both, TLC configurations that check them on small instances, and proofs checked by
TLAPS.  Paths of RIG below are relative to `src/rig/rig/`, file names that start with `j`, and `transupp.c`, are libjpeg's.

Contents: [Inventory](#inventory), [Plan](#plan), one section for each component modelled, [What the comments
say](#what-the-comments-say-and-the-code-does-not-do), [Runs](#runs), [Proved, checked, left out](#proved-checked-left-out).

## Inventory

### RIG

| Component | State it keeps | Operations | What makes it correct |
|---|---|---|---|
| HTML cache of album pages (`src/common.php`, used by `src/album.php`) | `cache_<md5>.html` per album, language, theme, user, layout and page; temporary files; dates of folders | `rig_begin_buffering` (look up, compare dates, include or expire), `rig_flush` (append a section), `rig_end_buffering` (publish), `rig_clean_buffering` (abort), `rig_admin_rm_html_caches` | a page is never seen half written; it is complete; it is not older than what it shows; it is used while nothing changes |
| Album options (`src/common.php`, `src/common_media.php`, `src/common_images.php`, `admin/admin_util.php`) | `options.txt` per album (hidden names, icon); globals `$list_hide`, `$list_album_icon` in a request | read, write, hide, show, set an icon, choose a random icon, fix; page views read the options of other albums and put theirs back | no change is lost; decisions use the options of the right album; links share the options of what they lead to |
| Thumbnails (`src/common_images.php`, `thumbnail/rig_thumbnail.cpp`, `thumbnail/rig_jpeg.cpp`) | `prev<size>_<name>` per image; the exit status of the engine | `rig_build_image_type`, `rig_build_video_type`, `rig_make_image`; the engine reads, rescales and writes, with an alarm of 20 s | a file that is there is a whole thumbnail; an image that times out is not tried at each request |
| Navigation and visibility (`src/common_media.php`, `src/common_display.php`) | globals: current album, real album, lists, counts, page numbers | `rig_prepare_album`, `rig_check_album_access`, `rig_follow_album_symlink`, `rig_load_album_list`, `rig_has_albums`, `rig_has_images`, `rig_max_album_page`, `rig_get_images_prev_next` | hidden albums are not shown or entered; every visible item is on exactly one page |
| Login (`src/login_util.php`, `src/common.php`) | cookies of the browser; user files | `rig_enter_login`, `rig_test_user_pwd`, `rig_handle_cookies`, `rig_remove_login_cookies` | the cookies name the user that was last accepted |
| Templates (`src/template.php`) | list of instructions, `exec_else` | parse, execute, skip to else, endif or end of buffering | exactly one branch of an if runs; buffering begun is ended |
| Folders (`src/common.php`) | cache and option folders | `rig_mkdir`, `rig_create_preview_dir`, `rig_create_option_dir` | a folder two requests need is there for both |
| Image arithmetic (`thumbnail/rig_rgb.cpp`, `rig_mem.h`) | pixel buffers | rescale by coefficient tables, reallocation | indices stay in the buffers |
| Overview, descriptions, strings, rendering, administration of images, comments, unfinished rewrite (`R*.php`), PHPUnit | none of their own, or unfinished | | |

The components meet in the file system.  A page view reads the options of its album; it looks for a cached page; if it
builds one it lists the album, makes thumbnails (which date the cache folder and so expire the pages in it), chooses
icons for albums that have none (which writes their options, and expires their pages).  The administrator's requests
write options and delete thumbnails and pages meanwhile.  Any request may be aborted by PHP (its shutdown functions
run) or killed (they do not).

### libjpeg

A library of controllers that call one another through tables of functions.  Nothing in it is concurrent, but everything
is interrupted: a source that has no more bytes, or a destination that has no more room, makes every call on the stack return,
and the application calls again from the top.  What is hard is where each controller goes on.

| Component | State it keeps | Operations | What makes it correct |
|---|---|---|---|
| Memory manager (`jmemmgr.c`, `jmemnobs.c`, `jmemansi.c`, `jcomapi.c`) | pools of small and large objects; virtual arrays: a window in memory over a temporary file | allocate, request, realize, access rows, `jpeg_abort`, `jpeg_destroy` | an array keeps its rows wherever they are; nothing is leaked after an error |
| Data source, markers, input controller (`jdatasrc.c`, `jdmarker.c`, `jdinput.c`, `jdapimin.c`) | position in the buffer, unread marker, tables by slot, restart counters | read a header, the scans, to the end; skip, save, resynchronize | what was written is read, however the bytes come; damage stays where it is; every read ends |
| Decompression pipeline (`jdapistd.c`, `jdmaster.c`, `jdcoefct.c`, `jdmainct.c`, `jdpostct.c`, `jdsample.c`, `jdmerge.c`) | coefficient arrays, row buffers with two lists of pointers, spare rows, strips, the colour map | start, read lines or raw data, passes of buffered-image mode, new colour maps, finish | every line once, in its place, of the right rows, with all the data of its scan |
| Compression pipeline (`jcapimin.c`, `jcapistd.c`, `jcmaster.c`, `jcprepct.c`, `jcmainct.c`, `jccoefct.c`, `jcmarker.c`, `jctrans.c`) | rows kept for the next call, MCU counters, passes, `sent_table` | set tables, start, write lines or raw data, write markers, write coefficients, finish | every block once, in its place; scans in order; the reader has every table |
| Huffman tables (`jchuff.c`, `jdhuff.c`) | counts, code lengths, derived tables | gather, generate, derive, look up | legal prefix codes, as short as can be, read as they were written |
| Entropy coders (`jchuff.c`, `jcphuff.c`, `jdhuff.c`, `jdphuff.c`) | bit buffers, predictions, end-of-band runs, correction bits | encode or decode a MCU, flush, restart | what is decoded is what was coded, as far as the scans have sent it |
| Lossless transforms (`transupp.c`, `jpegtran.c`) | workspace arrays, parameters of the new file, saved markers | mirror, transpose, rotate, trim, drop colour, copy markers | the file shows the image turned |
| Quantizers, DCT, colour conversion, other file formats, programs | sample values | | |

What is hard, and hard to test, is listed line by line under `hazards` in `PROJECT.json`.  In RIG: races between a test and
the use of its answer, a file truncated and rewritten without a lock, dates with a granularity of one second, global
variables that hold the options of one album while another is shown, errors that are ignored.  In libjpeg: restart points, state
kept from one scan or one image to the next, the edges of images whose size is not a multiple of anything, limits of
memory, tables changed after they were sent.

Hazards of RIG that no property covers, at the line where each bites:

- `src/common.php:2377`: a page found expired is removed by name, and a valid one may have taken its place.  `PageStore` lets a page
  be withdrawn at any time: it is only built once more.
- `src/album.php:62`: the page found can be removed before it is included; the visitor gets an empty body.  HtmlCache shows it
  (`Include` with no page) and nothing in the code forbids it.
- `src/common.php:898`: `is_dir`, then `mkdir`: of two processes that create one folder, one reports an error.
- `src/common.php:1905`: who is logged in depends on the order of cookies, posted names and forced logins over several requests.
- `src/common_images.php:577`: `$list_album_icon` is bound before `rig_read_album_options` unsets it, so the date check looks at the icon
  of the album shown.  `:668`: options are read back only when the read of the sub-album returned TRUE, but it clears the globals
  in any case.
- `src/common_images.php:158`: a thumbnail is never compared with its source (by design: the administrator deletes thumbnails; ThumbCache
  has it).  `:721`: the thumbnail copied as an icon may still be written by an engine.
- `src/common_media.php:433`: `rig_get_album_info` restores the options of an undeclared variable, hence of the root album.  `:90`: access
  is checked with the path of an album among names.  `:668`: the count of visible albums is kept while the hidden list is read
  again.  `:647`: a result that is not set when pagination is off.
- `src/common_display.php:262`: a division by the number of visible albums.
- `src/template.php:433`: an else is looked for without nesting.

## Plan

The order in which the modules were written: first what requests share, then libjpeg from its memory up, each module with its
instance and run, and proofs where the component has an invariant that is not a recursion over data.

1. **HtmlCache** with its abstract specification **PageStore**: the component with the most interleavings.  *Done, proved.*
2. **AlbumOptions**: lost updates and the options in global variables.  *Done, proved.*
3. **ThumbCache**: the thumbnails, from `rig_build_image_type` to the exit of the engine.  *Done, proved.*
4. **JpegPools**, **JpegMemory** with its abstract specification **StoredArray**.  *Done, proved.*
5. **JpegStream** (the bytes of a file), **JpegReader** (who reads them).  *Done.*
6. **JpegDecode**, **JpegDecodeProofs**.  *Done; every safety property proved, the finding delimited.*
7. **JpegScript**, **JpegEncode**, **JpegEncodeProofs**, **JpegBlocksProofs**.  *Done; every safety property proved.*
8. **JpegHuffman**, **JpegTables**; **JpegEntropy**, which composes JpegScript and JpegHuffman.  *Done.*
9. **JpegTransform** and **JpegTransformProofs**: accesses, trimming, markers.  *Done; all but `Geometry` proved.*

Left, in the order of what they would add: the colour quantizers, as far as they keep state (histograms, error rows, the
cache of the inverse map); visibility and pagination of albums against the partition of the visible items; a
composition of HtmlCache and AlbumOptions, where an icon chosen by a page view edits a source of the page of another album.

## HtmlCache

One album, many requests.  Each action is one file system call, or the code between two.

| Code | Model |
|---|---|
| what the page was built from: folder of the album, folder of its options, preferences and source folders | `Sources`: `"album"`, listed by `rig_load_album_list`, and `"options"`, which stands for all that is read when the request starts; `version`, `srcTime` |
| `cache_<md5>.html` (key `p`) | `html[p]`: its sections, its date, and (history) when its request arrived |
| `....html_<uniqid>` | `tmp[r]`; a file of a killed request is a stray |
| cache folder | `dirExists`, `cacheTime` (folder, `..` and the entries that are neither pages nor temporary files), `strays` |
| `rig_prepare_album` | `Prepare` |
| `rig_begin_buffering`: `is_file`, `rig_modif_date`, `rig_check_expired` path by path, `unlink` | `Lookup`, `Stat`, `Check`, `Expire` |
| `include($n)` in `album.php` | `Include` |
| code between two `rig_flush`; section `LoadSection` begins with `rig_load_album_list` | `Render`, `Reread` |
| `rig_flush` | `Flush`, `FlushLost` |
| `rig_end_buffering`: `is_file`, then `unlink` or `rename` | `Finish`, `Drop`, `Move` |
| `rig_clean_buffering`, registered as a shutdown function | `Abort` |
| `rig_admin_rm_html_caches` | `CleanOpen`, `CleanUnlink`, `CleanClose` |
| other requests, editors, the clock | `WritePreview`, `Edit`, `Tick` |

`LoadSection` is 2 for `album.php` on a nested album (the heading is flushed first) and 1 for the root album and for the
default template.  `Root` says that the folder exists and is never removed.  A page found expired is removed by name.
`rig_admin_rm_previews`, which deletes thumbnails, is not in the model: it would only date the folder, as
`WritePreview` does.

Properties that hold:

- `PublishedIsSuffix`: a page may lack its first sections, and only those.  `PublishedComplete`, that it
  lacks none, holds for the root album only (see *What the comments say*).
- `StaleEditedSinceStart`: a page is out of date only if its source was edited in or after the second its request arrived.
- `ServedInSecondOfRename`: a page is accepted only if the folder has not changed after the second of its last flush.
- `TmpBelongsToBuilder`: no way of ending a request leaves its temporary file, short of killing it.
- `StoreImplemented`: the files implement `PageStore`, whose slots change in one step.

`PageStore` has no time and no validity: a builder drafts a page where nobody reads it; the slot receives a draft that
has its last section, or is emptied.  The refinement maps a slot to the sections of the page and a draft to those of
the temporary file.

### Proofs (HtmlCacheProofs)

The five properties above and the type invariant are theorems for any number of processes, keys, sections, edits and
any clock, for nested albums and for the root, under the assumptions named in `HtmlCache`.  `PublishedIsSuffix` and the
refinement also assume `~MayFail`, that is that `rig_flush` fails only when there is no folder: an `fopen` that fails
for another reason can leave a hole.  The runs have `MayFail = FALSE`; the other theorems cover `TRUE` too.  `RootPagesComplete`, that
pages are complete, is a theorem for the root album (`Root`) with `~MayFail`; for nested albums it is false.  The inductive
invariants, each proved from the previous ones and one action at a time:

- `FolderInv`: files exist only in a folder that exists; what the cleaner counted is still there while it runs, so it
  does not remove the folder under a builder;
- `OwnerInv` (gives `TmpBelongsToBuilder`);
- `TimeInv`: no date is in the future, and the date of the folder is at least that of everything renamed or removed in it.
  With it, a page that passes `rig_check_expired` is as recent as its folder;
- `ContentInv`: what a request has read, or a section of a file shows, differs from the current version only if the source was
  edited since the request started.  `StaleEditedSinceStart` alone is not inductive: the draft must satisfy it before it is published;
- `SuffixInv`: the sections of a draft are all those between the first that found a folder and the one the request is at;
- `SeenInv`: what is read is a version between 0 and `MaxEdits`, for the refinement;
- `RootInv` (gives `PublishedComplete`): the folder is there, and the draft of a builder has every section flushed so far.  It needs
  `OwnerInv`, by which no other request writes to that draft or removes it.

## AlbumOptions

Albums, links to albums (`Real`), and requests that show an album to a visitor or to the administrator.

| Code | Model |
|---|---|
| `options.txt` | `file[a]`: whose write it is, how far it went (nothing, `:list_hide`, `:list_album_icon`, final `:`), or mixed when another process wrote at its own place |
| `$list_hide`, `$list_album_icon` | `opts`; `from` remembers the album they were read from |
| `rig_read_album_options` | `Having`, with an element of `ReadOf`: a list is kept when the next `:` line is met, so a file cut short loses its last list |
| `rig_write_album_options` | `Open` (truncates), two `Write`, `Close`; `OpenFails` |
| `rig_prepare_album`, `album.php`, `admin_album.php` | `Visit`, `Administer`, `Skip`, `End` |
| `rig_build_album_preview` | `Preview`, `Icon`, `Restore` |
| `rig_select_random_album_icon`, `rig_set_album_icon` | `Random`, `SetIcon` |
| `rig_admin_set_album_visible`, `rig_admin_set_image_visible` | `SetVisible`, `Readback` |
| `set_icon`, `fix_option`, `fix_options`, `mk_previews` | `UseAsIcon`, `FixOptions` and `Fix`, `MakePreviews` |

Abstractions: a read of `options.txt` is one step (the file is small, and what matters is where the writer was); nothing
is known of what is read from a mixed file; whether an icon file exists, has the right size or is older than its
source is a nondeterministic choice of `Preview` and `Icon`; the order in which sub-albums are shown is any; a read that
fails because the option folder cannot be created is not modelled.  `intended` and `spoiled` are history: the options the
changes add up to, applied one after the other, and the albums with a change that did not run alone (its file was
opened by another process since it was read, or its writer was killed).

Properties that hold:

- `ChangesAddUp`: outside `spoiled`, the file of an album is whole and holds what the changes add up to, whatever the
  requests did to the globals in between.  A change written from the options of another album breaks it.
- `PageOptionsRestored`: when the page decides what a visitor sees, or the administrator's change is due, the options in
  the globals are those of the album shown.

### Proofs (AlbumOptionsProofs)

`TypeCorrect`, `PageOptions` and `ChangesAddUpAlone` hold for any number of requests, albums, links, images and visits.
Two inductive invariants:

- `ShownInv`: types, and `Shown`.  A request that waits to restore the options of its album only does so in a preview, and a visitor
  has no administrator's change due.  This gives `PageOptionsRestored`, with links;
- `AddUpInv` adds: `Right`, options that are not stale and not of a spoiled album are those intended for the album they came
  from, with the change that is being written; `Own`, options are written to the album they came from; `WriterKnows`, a file
  written by the process that read it last holds what this process has written so far, and nobody else knows its
  contents; `Unspoiled`, outside `spoiled` a complete file holds what is intended, and one that is not complete has a
  writer.  It assumes `NoLinks`: on a link the administrator's change is computed from the options of the real album and
  written to those of the link (see
  `LinkHasNoOptions` under *What the comments say*).

Each action of a request that touches no file is shown to be `Local`: it leaves a sound request and the files alone, and
the invariants follow once for all of them.  `Open`, `Write`, `Close` and `Crash` change files and have proofs of their own.
Both invariants were model-checked before they were proved.

## ThumbCache

The thumbnails of one folder, the requests that miss them, and the engines they run.

| Code | Model |
|---|---|
| `prev<size>_<name>` | `file[t]`: there or not, and in each block the version of the source it shows, a hole, or the default icon |
| `rig_create_preview_dir`, called by `rig_prepare_album` | `Prepare` |
| `rig_is_file($abs_dest)`, `rig_make_image` | `Build`, `Return` |
| `copy` after a timeout | `Copy`, `Copied`, `CopyFails` |
| `rig_resize_image` up to the call of `rig_jpeg_write` | `Read` |
| `fopen`, `jpeg_write_scanlines`, `jpeg_finish_compress`, `longjmp` on an error | `Open`, `OpenFails`, `Write`, `Finish`, `WriteFails` |
| `rig_sig_alarm` | `Alarm` |
| `rig_admin_rm_previews` | `CleanOpen`, `CleanUnlink`, `CleanClose` |
| a PHP process that ends or is killed; its engine goes on | `End`, `Bury` |
| a source that is replaced | `Edit` |

A process keeps the file it opened when that is unlinked (`linked` becomes false), and then writes where nobody reads.  The
exit status is the code's: 0 also when the file did not open or a write failed, 1 when the source cannot be read, 3 after the alarm.
Blocks stand for what a write system call transfers; the status 2 (wrong arguments) cannot come from `rig_make_image`.
Only sources that are images or videos are in `Thumbs`; the `-1`, 0 and original sizes, which return without a
thumbnail, are left out.  A thumbnail is removed whatever its size: the administrator's two checkboxes only choose among them.

Properties that hold:

- `WholeThumbs`: engines of several requests may make one thumbnail at a time, empty each other's file and lose theirs to the
  administrator, and still, when nobody has it open, the file that is there is whole and of one version.  The history
  variable `disturbed` lists the exceptions, which are real: a write that failed or met the alarm, a default icon copied
  over the file while an engine writes it, a source that changed while engines had read it.  Such a file stays: `Build` only
  asks whether it is there.
- `RequestsEnd` (liveness): no request waits for its engine for ever.

Fairness: the alarm of an engine is delivered (`WF` on `Alarm`: the kernel does so after 20 seconds, `rig_thumbnail.cpp:648`), PHP goes
on when `exec` returns, and its copy ends.  Nothing is assumed of the engine's own steps, which may take for ever, nor
of visitors and administrators.  An engine blocked in the kernel where signals wait is not covered.

### Proofs (ThumbCacheProofs)

`TypeCorrect` and `ThumbsAreWhole` hold for any number of requests, thumbnails, blocks and edits, with or without failures.
`WholeThumbs` is not inductive: while engines write, the file has holes.  `WholeInv` says, for a thumbnail that is not in `disturbed`, that every
block is of one version or lies beyond the place of an engine that has the file open and so will write it (`Fills`), that such
engines made it from the source there is (`MadeOf`), that an engine has a file open only while it writes (`LinkedWrites`), that a
copy only touches a file of `disturbed` (`Copying`), and that a request has no second engine (`Alone`).  `Kept` shows once
that a step that does not touch the file keeps it filled; `Open`, `Write`, `CleanUnlink` and `Edit` have lemmas of their own.

## JpegPools, JpegMemory, StoredArray

The memory manager of one compressor or decompressor.

| Code | Model |
|---|---|
| `alloc_small`, `alloc_large`, `alloc_sarray`, `alloc_barray`, `free_pool` | operators of `JpegPools` on a memory `[small, large, total, heap, ok]` |
| `jpeg_get_small`, `jpeg_get_large` that return NULL | `Refused`; a request is refused up to `MaxRefusals` times, so the slop of `alloc_small` is halved as often |
| an object of a coder | `AllocObject` |
| `request_virt_sarray`, `request_virt_barray` | `RequestVirtSArray`, `RequestVirtBArray` |
| `realize_virt_arrays` | `Realize`: the number of access heights that fit, a buffer or a buffer and a temporary file for each array, in the order of the lists; it may fail anywhere |
| `do_sarray_io`, `do_barray_io` | `FileWritten`, `BufferRead` |
| `access_virt_sarray`, `access_virt_barray` | `AccessVirtSArray`, `AccessVirtBArray`: bounds, window moved down or up, rows claimed and zeroed, dirty |
| a coder that writes to the strip it got | `Modify` |
| `jpeg_abort`, `jpeg_destroy` | `Abort`, `Destroy` |

Sizes are units and rows are single values, `Junk` for what nobody wrote.  `heap` is what the system has given, kept beside the
library's own total.  `NoBackingStore` as `max_memory_to_use` stands for `jmemnobs.c`, where memory is never short; the other settings
for `jmemansi.c`.  The row chunks of a buffer matter because a window is written chunk by chunk, up to the first undefined row.
`held` is the strip a coder got last, with the place `at` of the pointer it got in the buffer: a coder writes through that pointer, wherever the window
is by then.

- `ImplementsStoredArray`: the arrays implement `StoredArray`, where an array has all its rows and there is no window.  There a coder
  gets a strip (`Get`), which changes no row that has had a writer; rows of which it is the first writer are claimed and become zero
  if the array was requested so.  Only the coder that holds a strip for writing can change one of its rows (`Put`), and a strip that is refused
  changes nothing (`Refuse`).  So a move of the window that loses, shifts or corrupts a row has no counterpart in `StoredArray`.
- `RowsKept` says the same of single steps: what a coder puts in a row is in that row, whichever way the pointer has been
  got, and a row with a writer changes in no other step until the arrays are released.
- `CleanWindowSaved`: a window not marked dirty can be dropped.
- `SpaceAccounted`: the total from which windows are sized is what the system gave, and after `jpeg_destroy` nothing is left,
  neither memory nor files, also when an error came in the middle of `realize_virt_arrays`.
- `TypeOK` has `HeldInWindow`: the strip a coder holds lies in the rows allocated, and its pointer is where the window has its rows.

### Proofs (JpegMemoryProofs)

`TypeCorrect`, `WindowsSaved`, `ArraysImplemented` and `RowsStay` hold for any arrays, sizes, chunks, contents, memory settings and refusals that
satisfy `ArraysAssumption` and `PoolsAssumption`.  One invariant carries the four: `Window(a)` for each array, of which

- `Placed`: a buffer has room for every strip that may be asked for, and is as high as the array or has a file.  The arithmetic of
  `Realize` gives it (`BelowFull`);
- `Fresh`: an array without a buffer has no contents;
- `HeldClaimed`: a strip held for writing was claimed and its window is dirty.  Without it a write after the
  access would break `CleanSaved`.

`MovedIsDefined` shows that the loop over chunks moves exactly the rows of the window below the first undefined one;
`RowsFollow`, that a write and a read at two places make the new window agree with the array; `AccessKeeps` and
`AccessContents` apply them to an access, for the invariant and for the refinement; `AccessKeepsRows`, for `RowsStay`.

`SpaceReturned` is `SpaceAccounted` for any sizes, any pools and any refusals.  Its invariant `SpaceInv` says that the memory is in `Accounted`
until the object is gone: every pool is well formed, and the total is the sum of what the lists of small and large pools hold and
what the system gave.  `Accounted` is closed under each operator of `JpegPools` (a pool made, extended, freed; the slop halved until the request
is granted or `MIN_SLOP` is reached), one lemma each, and under `Partial` steps, since a request may be refused in the middle of `Realize`.  The
rest of `SpaceInv` is for temporary files: the lists hold arrays only, and an array whose file is open is on a list, so
that `jpeg_abort` and `jpeg_destroy`, which walk the lists, find it.  Without it a file could outlive the object.

The sums and loops of this module are recursive functions.  The module begins with what proofs about them need: `IntervalInduction`, from the
least-number principle applied to a set of counterexamples, and `ComputedExists` and `IteratedExists`, that a recursive definition over an
interval defines a function, without which nothing could be said of its values.

## JpegStream, JpegReader

`JpegStream` has the marker writer as operators, so that what is read is what the library writes.  A Huffman code is one byte, the DC
difference itself; stuffing, restart markers and padding are as in `jchuff.c`.  `JpegReader` reads these bytes.

| Code | Model |
|---|---|
| `fill_input_buffer`, `skip_input_data` of `jdatasrc.c`, with its fake EOI | `Byte`, `Has`, `Take`, `FakeEOI`: for stdio the buffer is never empty |
| the source of an application that suspends | `Arrive(n)`: n more bytes; a routine that has not enough returns to its restart point (`Suspend`) |
| `first_marker`, `next_marker` | `FirstMarker`, `DiscardByte`, `DiscardStuffed`, `NextMarker`, `NoMarkerYet` |
| `get_soi`, `get_sof`, `get_sos`, `get_dht`, `get_dqt`, `get_dri`, `get_interesting_appn`, `skip_variable` | actions of these names; tables come piece by piece, so a suspended `get_dqt` defines a table twice |
| `save_marker` | `save_marker_begin`, `save_marker_data`, `save_marker_end` |
| `read_restart_marker`, `jpeg_resync_to_restart` | `process_restart`, `Recovery` |
| `jpeg_fill_bit_buffer`, `decode_mcu` | `DecodeBlock`, `decode_mcu`: the state is saved when the whole MCU is there |
| `latch_quant_tables`, `start_input_pass` | part of `get_sos` |
| `jpeg_read_header`, `jpeg_start_decompress`, `jpeg_finish_decompress` | `ReadHeader`, `StartDecompress`, `FinishDecompress`, `Finished` |

- `ImagesRecovered`: from a whole file, whatever the pieces: every scan, MCU by MCU, the colour space guessed from JFIF, Adobe and the
  component numbers, the density, the place where the next image starts, the table each component is dequantized with
  (`QuantizersLatched`) and the comments (`CommentsSaved`).
- `Resynchronized`: bytes were lost and up to two restart markers with them; the intervals that follow are in their place again.  Three
  is beyond what `jpeg_resync_to_restart` can tell from a marker that went astray.
- `ReadingEnds` (liveness): every file is read to its end or to an error, also a file cut anywhere.

Fairness: `WF` on what the library and the application do next, and `SF` on the arrival of bytes: an application that calls the library again and
again between two arrivals disables the arrival as often, but its source gives bytes in the end.  Arithmetic coding, APPn markers that are
saved (as comments are) and handlers of the application are left out, and no progressive file is among the sources: JpegEntropy has them.

## JpegDecode

The output side.  A row of samples is not its samples but which row of its component it is and the block columns of it that hold all
the data wanted; a line given to the application is the rows it was made of.

| Code | Model |
|---|---|
| `use_merged_upsample`, `jinit_upsampler`, `master_selection` | `use_merged_upsample`, `h2v2_fancy`, `need_context_rows`, `use_c_buffer`, `enable_1pass`, ...; `Supported` has their errors: raw data that are to be quantized, and sampling factors that are no whole fraction of the largest |
| `decompress_onepass`, `consume_data`, `finish_input_pass`, `consume_markers` | `DecodeMCU`, `ConsumeMarkers` |
| `decompress_data`, `decompress_smooth_data` | `FillBuffer`, when `CoefWaits` is false |
| `make_funny_pointers`, `set_wraparound_pointers`, `set_bottom_pointers` | `FunnyPointers`, `Wraparound`, `Bottom` |
| `process_data_simple_main`, `process_data_context_main`, `process_data_crank_post` | `SimpleMain`; `PostponedRow`, `ProcessRows`; `CrankPost` |
| `sep_upsample`, `merged_2v_upsample`, `merged_1v_upsample` | `SepUpsample`, `Merged2v` (with its spare row), `Merged1v` |
| `post_process_1pass`, `post_process_prepass`, `post_process_2pass` | `OnePass`, `Prepass`, `SecondPass` |
| `prepare_for_output_pass`, `output_pass_setup` | `PreparePass`, `EndDummyPass`, `SetupDone` |
| `jpeg_start_decompress`, `jpeg_read_scanlines`, `jpeg_read_raw_data`, `jpeg_start_output`, `jpeg_finish_output`, `jpeg_new_colormap`, `jpeg_consume_input`, `jpeg_finish_decompress` | `StartDecompress`, `Preloaded`, `ReadScanlines`, `RawData`, `StartOutput`, `FinishOutput`, `OutputFinished`, `jpeg_new_colormap`, `ConsumeInput`, `FinishDecompress`, `Finished` |
| a colour map dropped, another quantizer asked for between passes | `Requantize` |

Input is a list of scans and may be short before any MCU or marker.  Sample values, the coefficients smoothing estimates and the
colours chosen are data.

- `RowsInOrder`: every line once, in order, made of the rows of its place in every component; and the row triangle filtering mixes in is the true
  neighbour, across the edges of iMCU rows, where the two pointer lists take turns (`ContextIsTrue`).
- `RowsCurrent`: what is shown has the data of the scan the pass is to show, in every column, and so have the DC values above and below
  it that smoothing uses: output never overtakes input.
- `TypeOK` has `MapMatches`: pixels are mapped by the quantizer the colour map was made for, never while a histogram is gathered.
- `DecompressionEnds` (liveness): no loop waits for a scan the file does not have.
- `StopsAtBottom` fails, see below.

Fairness: as in JpegReader, `SF` on the source.

### Proofs (JpegDecodeProofs)

All of it is for any images, scans, settings, suspensions and orders of the application's calls, under `ConfigsAssumption` (an image has a line,
a column, a component and a scan, and factors of 1 to 4, as `initial_setup` requires; no scan has a component twice; a colour map that is there at the
start is the application's) and `SizesAssumption` (blocks have a size, calls ask for a line at least).

`ColorMapFits` is `MapMatches`.  `MapInv`: histograms are gathered only before a pass shows, by the second quantizer (`Gathering`); a map that is
kept over passes fits the quantizer that is active (`Kept`), which is what `prepare_for_output_pass` relies on when it does not choose anew; a pass that shows
has one (`Mapped`); and a call that goes on was made in its own state (`Called`), without which a call repeated after
a suspension could begin a pass from anywhere.

`CountersFit` is `TypeOK`.  No range is inductive by itself: that the upsampler's `next_row_out` stays below `MaxV` depends on the row groups the main buffer
offers, these on the iMCU row, and in the last iMCU row on the height of the image.  `CountInv` ties all of them to the line that is given next:

- `MainAt`: what `output.row` says of the main buffer: which row group of which iMCU row it is at, in `SimpleMain` and in the three states of the context
  buffer, and which of the two pointer lists is in use (`Turn`);
- `Consumed`: the row groups of the pass the upsampler is done with; `UpAt`: the lines given are `MaxV` times these, and those it has `Made` of the next one, be
  it in its colour buffer, as the spare row of the merged upsampler, or none; `rows_to_go` is what the image has left;
- `StripAt`: the strip and the row in it the postprocessor is at, in the gathering pass and in the one that shows;
- `OnePassInv`: without the full-image buffer there is one scan, and the input stands where the output does;
- `InputInv`, `CallInv`, `StateInv`: a row that is complete has no MCU begun; a call that reads has lines to read; in which states what can be.

The geometry is proved first, for any height, scale and sampling: `CeilTwice` and `CeilFactor` (two roundings up are one), `RowsIs` and
`LastRowsIs` (iMCU rows are full but the last, whether MCUs, blocks or lines are counted), `BottomIs` (the row groups `set_bottom_pointers` leaves in the
last iMCU row are the ones the lines left need: without it the context buffer would stop early or run on), `MergedIs` and `UpsampledIs` (what the factors can be
when nobody refused them).  Steps: `UpsampleSteps` (each upsampler on the row groups it is offered, however few lines are wanted), `RawCount` and the lemmas of the
three kinds of main buffer, then one for each call of the application.

`LinesInOrder` and `LinesCurrent` are `StripsEnd => RowsInOrder` and `StripsEnd => RowsCurrent`.  `StripsEnd` says that the strips of the 2-pass
quantizer end at the bottom of the image: the last one is full or has one line.  It is a condition on the image (`cfg` never changes), true
of every image whose strips have one or two lines; it is needed because the second pass does not look for the bottom (the finding of
`jpeg_strips`), and `StripsStop` shows that with it `StopsAtBottom` holds.  `LinesTrue` has no condition: a line that is in the image is the right one.

Both properties speak of the last lines given, and follow from `DataInv`, which says what is where at every step of the way there:

- `CoefInv`: a block of the full-image arrays has the last scan that its component was in, and the scan that is read where the input is past it (`Past`);
- `Pointers`: the lists of the context buffer as made, with the wraparound pointers from the second iMCU row on, with the bottom pointers while the
  last one is shown; `BottomListIs`, `WrappedListIs` and `FunnyIs` say which row of the buffer each entry is, and that no two entries share one;
- `BufferAt`: each row of the iMCU row that is shown is in its place (`InPlace`), and the last two row groups of the one before are kept (`Kept2`), where the other list
  has the rows above; while an iMCU row is decoded in one pass, the columns of the MCUs read so far (`Partial`);
- `UpHolds`: the lines of a row group that were made and not given yet are those of its place, in the colour buffer and in the spare row;
- `WholeHolds`: the image kept for the second pass has the lines so far;
- `ShownData`: lines given are `OutputRow` of their number, rows of raw data `WholeRow`.

It needs `CountInv`: only that says which row group, list and line a step works on.  Steps: `DecodeData` (one MCU, into the arrays or into the buffer: `StepsPast`
and `BlocksAre` say which blocks it adds), `MarkersData` (a new scan: what was wanted of the one before is there), `FillData` (an iMCU row from the arrays, with
the block rows above and below for smoothing), the three kinds of main buffer (`SimpleData`, `PostponedData`, `ProcessData`) over the upsamplers
(`RowGroupHolds`) and the three passes of the postprocessor (`PostHolds`), then one for each call of the application.

## JpegScript, JpegEncode

`JpegScript` has `validate_script` and `jpeg_simple_progression`.  `JpegEncode` is the compressor from lines to MCUs, with several
images in a row.  A sample row is the lines of the image it is made of; a block is whose DC and AC values it holds.

| Code | Model |
|---|---|
| `jpeg_set_defaults`, `jpeg_suppress_tables`, `jpeg_write_tables`, `jpeg_start_compress` | `NextJob`, `WriteTables`, `StartCompress` |
| `pre_process_data`, `pre_process_context`, `expand_bottom_edge` | `Preprocess`, with its row groups and pointers |
| `process_data_simple_main`, and its count short by one when the destination refuses | `LinesDone`, `RowsTaken` |
| `compress_data`, `compress_first_pass`, `compress_output`; `compress_output` of `jctrans.c` | `CompressData`, `EncodeMCU`, `SuspendMCU`, `RowCompressed`; dummy blocks as `Dummy` |
| `finish_pass_master`, `prepare_for_pass` | `FinishPass`, `NextPass`, `AfterPass`, `Prepared` |
| `emit_dqt`, `emit_dht`, `emit_dri`, `emit_sos`, headers | `Emit`, `Headers` |
| `finish_pass_gather` | `Optimal`: new tables with a version that says which statistics they are of |
| `encode_mcu` with its restart counters | `entropy`, marks in `file` |
| `jpeg_write_scanlines`, `jpeg_write_raw_data`, `jpeg_write_marker`, `jpeg_finish_compress` | `WriteScanlines`, `WriteRawData`, `WriteMarker`, `FinishCompress` and `Trailer` |
| `jpeg_copy_critical_parameters`, `jpeg_write_coefficients` | `ReadCoefficients`, `CopyCriticalParameters`, `WriteCoefficients` |

`decoder` is history: the tables somebody has who reads all the files written.

- `CodedInOrder`, of four parts.  `BlocksInOrder`: every MCU once and in its place, of the lines it stands for; at the right and bottom edge
  the last column and line again, and dummy blocks that cost least.  `RestartsInOrder`: the restart marker due before it.  `LinesCoded`: when all
  lines are reported taken, all have been coded.  `TablesOptimal`: tables of an optimized scan are made of all of its statistics, and of that scan.
- `DecoderHasTables`: whoever reads has the tables of the scan, over images, tables-only files, suppression and optimization.
- `ScansComplete` (action property): scans follow one another, each complete, after one frame header, then EOI.
- `CompressionEnds` (liveness): a destination that suspends and an application that calls again reach the end.

Fairness: `WF` on the library and on the application.  Colour spaces and sample values are data.

### Proofs (JpegEncodeProofs, JpegBlocksProofs)

All that follows is for any images, samplings, scripts, heights and lists of jobs, any number of lines a call and any destination
(`JobsAssumption`: a list is not empty, an image has a line, a column and a component, and factors of 1 to 4, as MAX_SAMP_FACTOR requires;
those of an image that comes as lines divide the largest ones, as `jinit_downsampler` requires).

`TablesKnown` is `DecoderHasTables`.  It says nothing of `sent_table`; the invariant does: `SentKnown`, a table marked as sent is the
reader's; `FrameSent` and `ScanSent`, the tables of the frame and of the scan being written are marked.  To know that a header precedes its
scan, the passes must be placed: `ScanSelected`, `Beginning` (before the first scan header the compressor is in its statistics pass or between
passes), `PassTypes`, `Calls`.  `EmitKeeps` and `HeadersKeep` show what writing tables does, `OptimalKeeps` that a statistics pass unmarks what it
changes, `Working` and `FirstLines` where the calls of the application can be.

`CountersInRange` (`TypeOK`) and `ScansFollow` (`ScansComplete`) rest on `CourseInv`, the course of the compressor: `PassInv` says which
pass runs, of which scan, and that `pass_number` counts skipped passes too; `CallInv` who calls whom; `CountInv` that the number of
MCUs coded is the one their place (iMCU row, row of MCUs, column) tells; `RowsInv` how many lines were taken, counted and put in row groups, in the plain and in the
context preprocessor, with the row that is given back when the destination suspends; `MarksInv` one SOS for each scan.  A scan is complete
because the iMCU rows of MCUs, the last of them shorter, make up `Count(Scan)`: `CeilCeil` and `ScanIs` show that for any size and sampling.

`CodingInOrder` (JpegBlocksProofs) is `CodedInOrder`.  Restarts and tables: `RestartInv` relates the counters of `encode_mcu` to the number of MCUs
(`IntervalStep` is the division by the interval, one MCU further); `OptimalInv` says that from the end of a statistics pass to the next scan the tables of
the scan are those of all of its MCUs.  The blocks rest on `DataInv`, which follows the data from one buffer to the next, each indexed by
counters that a suspension may set back:

- `InputInv`, `ModeInv`: what kind of input the state of the compressor stands for, and what the coefficient controller does in which pass;
- `RingInv`: what `color_buf` holds.  Without context rows it is the row group being filled; with context it is the ring of three row groups, in which the
  lines around the row group to be downsampled next are those around it in the image, found through `RowPointer` at whatever place the ring has turned to.
  Steps: `ConvertIs` and `ExpandIs` (lines copied, the last one repeated), `ContextRow` and `SimpleRow` (what the downsamplers make of them is `Line`),
  one lemma for a turn of each preprocessor;
- `BufferInv`: the main buffer holds the row groups of this iMCU row that are ready, so `Ready` is all of them when an MCU is made (`GivenInMainPass`);
- `WholeInv`: the first `Kept` iMCU rows of the virtual arrays hold the blocks of the image, dummy blocks too (`StoredIs`); a pass over an image that came whole
  finds all of them (`WholeFrame`, `WholeStep`), and the first pass, started again after a suspension, stores the same ones once more.

An MCU is then right (`MCURight`): `DataAt` names the block a reader takes its place in the scan for; `ArrayRight` shows it for blocks from the arrays,
`DummiesRight` for blocks made on the way, where a dummy block repeats the one before it in the MCU, over any number of them (`Repeats`, `LastReal`).  The two
orders of dummy blocks, along a row of the array and down a column of MCUs, meet in `Block`.

## JpegHuffman, JpegTables

`JpegHuffman` has the algorithms as operators: `jpeg_gen_optimal_table` (with the pseudo-symbol, the merging of the two least counts, the
shortening of long codes), `jpeg_make_c_derived_tbl`, `jpeg_make_d_derived_tbl`.  `JpegTables` takes one table through gathering, generation and both
expansions.

- `TablesLegal`: both sides accept what is generated; there is a code for each counted symbol and no other; no code is a prefix of another,
  also after shortening, of which the source says that "the JPEG spec seems to think this works".
- `DecodersAgree`: the lookahead table knows exactly the short codes, whatever bits follow, and the slow loop ends at the length of the code.
- `ShortestCode`: where the limit does not shorten, no other code that keeps a word free is shorter on what was counted (the reference is a
  search of all code lengths that satisfy Kraft's inequality).

## JpegEntropy

An image is coded scan by scan with `jchuff.c` or `jcphuff.c`, with a statistics pass if asked for, and each scan is decoded from a source
that gives any number of bytes at a time.  Here bits are real: blocks have 7 coefficients of at most 2 bits, bytes have 3 bits, runs go up to 2,
and what depends on such sizes in the code is a constant of the module.

| Code | Model |
|---|---|
| `encode_one_block`, `htest_one_block`, `encode_mcu_DC_first`, `encode_mcu_AC_first`, `encode_mcu_DC_refine`, `encode_mcu_AC_refine` | operators of these names: what a block emits, to be counted (`encode_mcu_gather`) or written (`encode_mcu`); the two loops over a block that must agree are `BandCodes` and `AcSymbols` |
| `emit_eobrun`, `emit_buffered_bits` | `emit_eobrun`, with the correction bits it carries |
| `emit_bits`, `flush_bits`, stuffing | `PutBit`, `flush_bits` |
| `emit_restart` | restart in both passes, before the first block of an interval |
| `decode_mcu` and the four of `jdphuff.c`, with `jpeg_fill_bit_buffer`, `HUFF_DECODE` | `decode_mcu`: from the saved state, or from the coefficients of a refinement that were changed already (`Undone`) |
| `process_restart`, `insufficient_data` | operators `decode_mcu` uses |

- `ScansRecovered`: after each scan every coefficient has the bits the scans have sent, and no other, wherever decoding was suspended.
- `InStep`: the decoder ends each interval with the padding alone.
- `FailsForAReason`: the statistics pass and the output pass agree; no symbol comes up without a code.
- `ScriptsSound`: what `validate_script` accepts sends no bit twice, and `jpeg_simple_progression` loses none.
- `TypeOK` has the bound of the buffer of correction bits.

## JpegTransform

`jpegtran` on the coefficients of one file, once or twice.  A block has `DCTSIZE` x `DCTSIZE` coefficients; `Cosine` is the transform, of which only
its symmetry is assumed, so the samples of a file can be compared before and after.

| Code | Model |
|---|---|
| `jtransform_request_workspace`, `jtransform_adjust_parameters`, `transpose_critical_parameters`, `trim_right_edge`, `trim_bottom_edge` | actions and operators of these names |
| `do_flip_h` (in place), `do_flip_v`, `do_transpose`, `do_rot_90`, `do_rot_180`, `do_rot_270`, `do_transverse` | `FlipInPlace`; `flip_v`, ... applied by `TurnRows` to some rows at a time, as the code accesses them |
| `jcopy_markers_setup`, `jcopy_markers_execute` | `Saved`, `jcopy_markers_execute`, `Duplicate`; a marker is one of `MarkerKinds` |
| `main` of `jpegtran.c` | the order of the actions; `NextRun` takes the result as source |

- `Geometry`: the new image shows the old one turned; whole iMCUs are mirrored and a partial one at the edge stays where it is.  `Combined`: two
  runs give what the comments of `transupp.c` say, and each transform undoes its inverse.
  Its conjunct `NoEdgeLeft`: a trimmed result has no block that could not be mirrored, and loses less than an iMCU of each side.
- `MarkersOnce`: JFIF and Adobe once, what was asked for of the source once, in order.
- `TypeOK` has `AccessesFit`: every access lies in its array, in the order the virtual arrays need, with one exception (`Overgrown`).

A step of the transform is taken only if `StepFits`: `access_virt_barray` grants its rows (`RowsGranted`) and its columns are there, which nothing in
the code looks after (`ColumnsExist`).  Otherwise `LeaveArrays` ends the run in "outside": with an error exit for rows, with anything at all for columns.
`AccessesFit` says that this comes only in an `Overgrown` run: one that drops the colours of a file whose first component has fewer samples
than another.  Component 1 then gets factors of 1 x 1 (`jcparam.c:415`), so it is taken to be as large as the image, while its arrays are those of
the source.  Such files are among the jobs, and some of these runs end, with more luminance samples than there were (`LuminancePreserved`, under
*What the comments say*).

Abstractions: the padding blocks of arrays are zero; a file whose components share a slot with different tables is JpegEncode's error (`slot_reused`).

### Proofs (JpegTransformProofs)

`TypeCorrect`: `TypeOK`, so every access inside its array unless the run is overgrown, for files of any width, height and sampling, blocks of any size and any sequence of
transforms.  `JobsAssumption` says what a file is (`IsFile`: sampling factors from 1 to 4, one block for each place of its padded arrays), and
nothing of which component has the most samples.  The invariant is `TransformInv`; its core is `Within`: but in an overgrown run the padded arrays of the
destination, turned, are no larger than those of the source, and its sampling factors no greater.  `StepsFit` concludes that every step fits, from
what is read of the rows and of the columns (`SourceRowsFit`, `SourceColumnsFit`), and `TurnedInside` that what fits reads blocks that exist.
`Within` follows from lemmas on rounding (`DivUpLeast`, `RoundUpAligned`) and
on the two sides of an array (`SideMono`: a trimmed image; `SideOfOne`: a grey one; `TransposedSizes`: a turned one); `TurnInv` adds how far each
workspace array has been written.

`TrimmedEdges`: `NoEdgeLeft`.  `TrimInv` keeps, from `jtransform_adjust_parameters` to the result, that each side is whole iMCUs, or less than one, or
was not trimmed.

`MarkersKept`: `MarkersOnce`, for any list of markers of `MarkerKinds` and any number of runs.  `MarkerInv` says what the list is from step to step:
after the header what was asked for of the source (`Saved`), at the end `Copied`, the headers of the encoder and then those saved without the ones
of the encoder.  `Those(ms, S)`, the markers of a list that are among `S`, is a recursive function: `SieveExists` and `ThoseIs` show that
it is defined, and `ThoseOfBoth` (two lists, one after the other) and `ThoseOfThose` (what is kept of what was kept), by induction
over the list, are what the invariant needs of it.

## What the comments say, and the code does not do

Some definitions state what a comment, the documentation or a header says, and fail.  They stand at the end of their modules with
the words they translate.  One is kept as a run and a finding:

- `StopsAtBottom` (`JpegDecode`, run `jpeg_strips`): `jdpostct.c:223` checks for the bottom of the image in the second pass of the 2-pass
  quantizer, and subtracts `starting_row` instead of the row it is at.  When the last strip is taken in parts, lines below the image
  come too and `output_scanline` passes `output_height`.  A strip has one line for each unit of vertical sampling, so it takes 3 or 4
  of them, and an application that asks for fewer lines than a strip.  `StripsStop` proves that nothing else can do it.

The others, each with an instance that shows it (all with `MayFail = FALSE`, two requests unless said otherwise):

| Definition | The code does | Instance |
|---|---|---|
| `GivesUpOnPresentPage` (`HtmlCache`) | two builders of a page both pass the `is_file` test of `common.php:2474`; the second replaces the page of the first | root album, `LoadSection = 1`, no cleaning, no edit |
| `PublishedComplete` | the first page of a nested album is published without its heading: the folder did not exist when it was flushed (`common.php:2521`) | `Root = FALSE`, `LoadSection = 2`, one request |
| `ServedIsCurrent` | an edit during the build, not later than the second of its last flush, is never noticed (`common.php:2370`) | root album, one request, one edit |
| `UnchangedIsServed` | publishing dates the cache folder, which is watched: the page expires at once if the rename falls in a later second (`common.php:2370`) | root album, one request, no edit |
| `IconKeepsHidden` (`AlbumOptions`) | a page view that chooses an icon erases a name hidden at the same time (`common_images.php:733`) | `Ops = {"hide"}` |
| `FixKeepsExisting` | `fix_options` compares the hidden names of a sub-album with the contents of another album (`admin_util.php:593`) | `Ops = {"fixall"}` |
| `LinkHasNoOptions` | hiding through a link writes options under the name of the link, which nobody reads (`admin_util.php:828`) | an album that is a link, `Ops = {"hide"}` |
| `TimeoutRemembered` (`ThumbCache`) | after the timeout of an image the icon that should be its thumbnail is not copied: its folder is a global that is not declared (`common_images.php:170`) | `Thumbs = {image}`, `Videos = {}`, 2 blocks, no edit |
| `LuminancePreserved` (`JpegTransform`) | `jpegtran -grayscale` takes a first component with fewer samples than another to be as large as the image: the luminance channel is not "preserved exactly" (`transupp.h:78`), it has more samples than before (`transupp.c:753`) | `Jobs <- GrayJobs`, the end of a run at width and height 2 |

## Runs

| Run | Bounds | Shows |
|---|---|---|
| `html_cache` | nested album; 2 requests, 1 key, 2 sections, 2 seconds, 1 edit, cleaning | `PublishedIsSuffix`, `StaleEditedSinceStart`, `TmpBelongsToBuilder`, `ServedInSecondOfRename` |
| `html_root` | root album; 2 requests, 2 keys, 2 sections, 2 seconds, cleaning | `PublishedComplete`, `StoreImplemented` |
| `options` | 2 requests, 2 visits, all operations, failures, 2 albums, 1 image, no link | `ChangesAddUp`, `PageOptionsRestored` |
| `thumbs` | 2 requests, 1 thumbnail of a video, 3 blocks, 1 edit, failures | `TypeOK`, `WholeThumbs`, `RequestsEnd` |
| `jpeg_memory` | arrays of 1 and 2 rows of samples and 3 rows of blocks accessed two by two; no memory, some, unlimited, `jmemnobs.c`; 1 refusal | `TypeOK`, `CleanWindowSaved`, `SpaceAccounted`, `ImplementsStoredArray`, `RowsKept` |
| `jpeg_read` | 4 files (interleaved colour, tables and an abbreviated grey image, three scans with a table redefined and stray bytes between, CMYK with comments), whole from both sources; one cut after every byte; one with every run of up to 7 bytes lost; unsupported frames | `TypeOK`, `ImagesRecovered`, `Resynchronized`, `ReadingEnds` |
| `jpeg_decode` | 27 images of every kind of upsampling, context, merging, quantizing, raw data, planes, progressive with smoothing; heights that end in each row of an iMCU; 1 or 3 lines at a time; up to 3 output passes | `TypeOK`, `RowsInOrder`, `RowsCurrent`, `DecompressionEnds` |
| `jpeg_strips` | strips of 3 lines, height 5 | `StopsAtBottom`, violated |
| `jpeg_write` | every height up to three iMCU rows with 5 samplings, with and without smoothing; restarts, raw data, scripts, progressive, optimized, transcoded; lists of tables-only, abbreviated and optimized images; 1, 2, 3 or 7 lines a call, room for 1, 2 or 5 MCUs | `TypeOK`, `CodedInOrder`, `DecoderHasTables`, `ScansComplete`, `CompressionEnds` |
| `jpeg_tables` | any counts of 5 symbols among 0, 1, 2, 4, 9; descending counts of 7; codes of up to 4 bits, from lengths up to 6; lookahead of 2 bits | `TablesLegal`, `DecodersAgree`, `ShortestCode` |
| `jpeg_codes` | progressive images of 3 blocks in any combination and of 5; restarts after 0, 1, 2 MCUs; sequential images of two components; the standard and optimized tables; all scripts of up to 3 scans from a set; a full destination | `TypeOK`, `ScansRecovered`, `InStep`, `FailsForAReason`, `ScriptsSound` |
| `jpeg_transform` | sizes 1 to 5 by 1 to 5 of 4 samplings with every transform, trimmed or not, grey or not; colour images up to 9 wide; 2 samplings with a small first component; all pairs of transforms on 3 sizes; markers copied twice | `TypeOK`, `Geometry` with `NoEdgeLeft`, `MarkersOnce` |

Why the bounds are enough.  RIG: two requests suffice for every race found, each hazard being one process acting between two steps of another;
two seconds distinguish "in the same second" from "later"; one edit is enough to be out of date; two sections distinguish a
missing first section from a missing last one.  The sources start at date 1 and version 0.  Thumbnails of one folder meet only when the folder
is removed, and an image differs from a video only in that no icon is copied; three blocks leave one between the places of two engines.
libjpeg: blocks of 2 x 2 (7 or 8 coefficients in a row) have what the code tells apart: DC and AC, a first and a last row, a
band with an end; three iMCU rows are a first, an inner and a last one, so both pointer lists of the context rows and both buffers take
their turns; a run of 7 lost bytes takes up to three restart markers, one more than can be recovered; three rows
of which two are accessed at a time make the window move down and up with an overlap.  Each constant that stands for a number of the code
(`DCTSIZE`, `MAX_CODE`, `MAX_CORR_BITS`, `RunMax`, ...) is declared with that number.

Deadlock is checked where a state without a next step would be wrong: `HtmlCache` and `ThumbCache`, where a request may always come, and `JpegEntropy`,
where only a finished image or an error (`Stopped`) ends a run.  In `AlbumOptions` only `MaxVisits` requests come, and the other models of
libjpeg end with their images.

`HtmlCache`, `AlbumOptions`, `JpegMemory`, `JpegTables`, `JpegEntropy` and `JpegTransform` assume no fairness: their properties are safety properties.
The fairness of the others is explained with them.

## Proved, checked, left out

Proved for all values of the constants (`theorems` in `PROJECT.json`): every safety property of HtmlCache, AlbumOptions, ThumbCache and JpegMemory, their type
invariants and the refinements of PageStore and StoredArray; `TypeOK`, `DecoderHasTables`, `ScansComplete` and `CodedInOrder`
of JpegEncode; `TypeOK`, `RowsInOrder` and `RowsCurrent` of JpegDecode; `TypeOK`, `NoEdgeLeft` and
`MarkersOnce` of JpegTransform.  No theorem rests on anything but the
assumptions named in the modules and the conditions (`MayFail`, `NoLinks`, the root album of `PublishedComplete`, `StripsEnd`, `Overgrown`) said with it.  Every inductive invariant was model-checked on the
instances before it was proved.

Where a model has a recursive function (the loops of JpegMemory, the dummy blocks of JpegEncode, the markers of
JpegTransform), the function is shown to exist, and an induction
over it is the choice of a least counterexample, in place of the library's induction rules, which take operators.

Only model-checked:

- liveness (`RequestsEnd`, `ReadingEnds`, `DecompressionEnds`, `CompressionEnds`), which is beyond the prover, as ENABLED is;
- the properties of JpegReader: `ImagesRecovered` and `Resynchronized` compare what was read with the file as `JpegStream` writes it, so a proof is an
  induction over the bytes of a file and the writer's recursion; its `TypeOK` is checked with them, and the skipping of FFs (`AfterFFs`) is
  a recursion without an end known beforehand;
- `ScansRecovered`, `InStep` and the others of JpegEntropy, which uses recursive operators, as the prover does not take them; `TablesLegal`,
  `DecodersAgree` and `ShortestCode` of JpegTables, powers of two and folds over the counts of symbols;
- `Geometry` of JpegTransform but for `NoEdgeLeft`: a sum over the coefficients of a block.

Not modelled, with the reasons:

- colour quantizers (`jquant1.c`, `jquant2.c`), DCT and colour conversion: arithmetic on sample values; JpegDecode has what they ask of the passes
  around them;
- the programs `cjpeg`, `djpeg` and other file formats: command lines and formatting;
- arithmetic coding and application-supplied handlers: the library has no code for the first, the second are the application's;
- navigation, pagination, overview, templates, login of RIG: names, counts and strings worked on inside one request; what they read of the shared
  state is in AlbumOptions and HtmlCache.  Their hazards are listed under *Inventory*;
- creation of folders: one step in HtmlCache and ThumbCache;
- image arithmetic and video: pixels, and a library that is not there;
- comments, administration of images, `R*.php`, XML options: unfinished or disabled in the source.
