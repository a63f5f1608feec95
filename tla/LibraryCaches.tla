---------------------------- MODULE LibraryCaches ----------------------------
(***************************************************************************)
(* The two caches behind the pages and pictures a reader asks for:         *)
(* verified files on disk (library.py, cached) under the asset lock, and   *)
(* the rendered pages in memory (_get_page) under the render slot.         *)
(*                                                                         *)
(* The disk outlives the worker: what a crash leaves in the directory is   *)
(* there for the next one.  A file may decay between two uses.             *)
(***************************************************************************)
EXTENDS Naturals, Sequences, SequencesExt, FiniteSetsExt

CONSTANTS
    Viewers,        \* tool threads
    Views,          \* requests: [book, asset, view], view = 0 for an image.  The asset is
                    \* the digest that the publication's manifest names for the book's file
    SizeOf,         \* bytes of an asset
    PixelsOf,       \* bytes of the rendered page of an asset, by view
    CacheBytes,     \* cache_bytes
    RasterBytes,    \* raster_cache_bytes
    RasterEntries,  \* 32
    Restarts,       \* bound: crashes of the worker
    Decays,         \* bound: files that go bad on disk
    NoView

Assets == {v.asset : v \in Views}

ASSUME CachesAssumption ==
    /\ CacheBytes \in Nat /\ RasterBytes \in Nat /\ RasterEntries \in Nat \ {0}
    /\ Restarts \in Nat /\ Decays \in Nat
    /\ \A d \in Assets : SizeOf[d] \in Nat \ {0}
    /\ \A v \in Views : v.view # 0 => PixelsOf[v.asset][v.view] \in Nat

VARIABLES
    disk,        \* the directory, by mtime: [name, bytes, good]; name "temp" for a temp file
    rasters,     \* _rasters: a sequence of [key, value, bytes]
    rasterSize,  \* _raster_size
    viewer,      \* where each thread is
    shown,       \* history: the last answer, [view, asset]
    restarts, decays

cacheVars == <<disk, rasters, rasterSize, viewer, shown, restarts, decays>>

AtEase == [pc |-> "free", view |-> NoView, bytes |-> NoView]
NotShown == [view |-> NoView, asset |-> NoView]

CachesInit ==
    /\ disk = <<>>
    /\ rasters = <<>>
    /\ rasterSize = 0
    /\ viewer = [t \in Viewers |-> AtEase]
    /\ shown = NotShown
    /\ restarts = 0
    /\ decays = 0

----------------------------------------------------------------------------
(* The directory *)

BytesOf(files) == FoldSeq(LAMBDA f, sum : f.bytes + sum, 0, files)
Under(name) == {i \in DOMAIN disk : disk[i].name = name}

\* exists, and digest_file is the asset's
Verified(name) == \E i \in Under(name) : disk[i].good
\* What is read or linked under the name: the asset itself, unless the file went bad.
Contents(name) == IF Verified(name) THEN name ELSE NoView
Unlinked(name) == IF Under(name) = {} THEN disk ELSE RemoveAt(disk, CHOOSE i \in Under(name) : TRUE)

\* mutant: the asset that comes is not counted
EvictedFor(files, bytes) ==
    LET n == Min({i \in 0..Len(files) : BytesOf(SubSeq(files, i + 1, Len(files))) <= CacheBytes})
    IN  SubSeq(files, n + 1, Len(files))

\* The oldest files go until the asset fits; temp files of an earlier worker too.
Evicted(files, bytes) ==
    LET n == Min({i \in 0..Len(files) :
                    i = Len(files) \/ BytesOf(SubSeq(files, i + 1, Len(files))) + bytes <= CacheBytes})
    IN  SubSeq(files, n + 1, Len(files))

----------------------------------------------------------------------------
(* The threads *)

At(t, pc) == viewer[t].pc = pc
Go(t, pc) == viewer' = [viewer EXCEPT ![t].pc = pc]
Asset(t) == viewer[t].view.asset
Done(t) == viewer' = [viewer EXCEPT ![t] = AtEase]

AssetLockFree == \A t \in Viewers : viewer[t].pc \notin {"fetch", "have"}
RenderSlotFree == \A t \in Viewers : viewer[t].pc # "free" => viewer[t].view.view = 0

\* get_image waits for the asset lock; get_page is refused while another renders.
Ask(t) == \E v \in Views :
    /\ At(t, "free")
    /\ v.view # 0 => RenderSlotFree
    /\ viewer' = [viewer EXCEPT ![t] =
          [pc |-> IF v.view = 0 THEN "asset" ELSE "raster", view |-> v, bytes |-> NoView]]
    /\ UNCHANGED <<disk, rasters, rasterSize, shown, restarts, decays>>

Key(v) == v

Hits(t) == {i \in DOMAIN rasters : rasters[i].key = Key(viewer[t].view)}

RasterHit(t) ==
    /\ At(t, "raster")
    /\ \E i \in Hits(t) :
          /\ rasters' = Append(RemoveAt(rasters, i), rasters[i])
          /\ shown' = [view |-> viewer[t].view, asset |-> rasters[i].value]
    /\ Done(t)
    /\ UNCHANGED <<disk, rasterSize, restarts, decays>>

RasterMiss(t) ==
    /\ At(t, "raster")
    /\ Hits(t) = {}
    /\ Go(t, "asset")
    /\ UNCHANGED <<disk, rasters, rasterSize, shown, restarts, decays>>

\* "asset exceeds cache budget"
TooLarge(t) ==
    /\ At(t, "asset")
    /\ SizeOf[Asset(t)] > CacheBytes
    /\ Done(t)
    /\ UNCHANGED <<disk, rasters, rasterSize, shown, restarts, decays>>

Reuse(t) ==
    /\ At(t, "asset") /\ AssetLockFree
    /\ SizeOf[Asset(t)] <= CacheBytes
    /\ \E i \in Under(Asset(t)) : disk[i].good /\ disk' = Append(RemoveAt(disk, i), disk[i])
    /\ Go(t, "have")
    /\ UNCHANGED <<rasters, rasterSize, shown, restarts, decays>>

\* A bad file is removed, room made, and an empty temp file created.
MakeRoom(t) ==
    /\ At(t, "asset") /\ AssetLockFree
    /\ SizeOf[Asset(t)] <= CacheBytes
    /\ ~Verified(Asset(t))
    /\ disk' = Append(Evicted(Unlinked(Asset(t)), SizeOf[Asset(t)]),
                      [name |-> "temp", bytes |-> 0, good |-> FALSE])
    /\ Go(t, "fetch")
    /\ UNCHANGED <<rasters, rasterSize, shown, restarts, decays>>

Temp == disk[Len(disk)]

\* verify streams the object into the temp file and stops past the recorded size.
Stream(t) ==
    /\ At(t, "fetch")
    /\ Temp.bytes < SizeOf[Asset(t)]
    /\ disk' = [disk EXCEPT ![Len(disk)].bytes = @ + 1]
    /\ UNCHANGED <<rasters, rasterSize, viewer, shown, restarts, decays>>

\* The temp file takes the digest's name.
Keep(t) ==
    /\ At(t, "fetch")
    /\ Temp.bytes = SizeOf[Asset(t)]
    /\ disk' = [disk EXCEPT ![Len(disk)] = [name |-> Asset(t), bytes |-> Temp.bytes, good |-> TRUE]]
    /\ Go(t, "have")
    /\ UNCHANGED <<rasters, rasterSize, shown, restarts, decays>>

\* The store fails, or holds other bytes.
FetchFails(t) ==
    /\ At(t, "fetch")
    /\ disk' = Front(disk)
    /\ Done(t)
    /\ UNCHANGED <<rasters, rasterSize, shown, restarts, decays>>

\* read_bytes, still under the lock
ServeImage(t) ==
    /\ At(t, "have") /\ viewer[t].view.view = 0
    /\ shown' = [view |-> viewer[t].view, asset |-> Contents(Asset(t))]
    /\ Done(t)
    /\ UNCHANGED <<disk, rasters, rasterSize, restarts, decays>>

\* os.link under the lock: the original survives an eviction
LinkOriginal(t) ==
    /\ At(t, "have") /\ viewer[t].view.view # 0
    /\ viewer' = [viewer EXCEPT ![t] = [@ EXCEPT !.pc = "render", !.bytes = Contents(Asset(t))]]
    /\ UNCHANGED <<disk, rasters, rasterSize, shown, restarts, decays>>

\* render_page: no image, too large an image, or no answer within its limits
RenderFails(t) ==
    /\ At(t, "render")
    /\ Done(t)
    /\ UNCHANGED <<disk, rasters, rasterSize, shown, restarts, decays>>

Fits(from, bytes) ==
    /\ BytesOf(SubSeq(rasters, from, Len(rasters))) + bytes <= RasterBytes
    /\ Len(rasters) + 1 - from < RasterEntries

\* The page is answered, and kept when it fits after the least recent ones are gone.
Render(t) ==
    LET bytes == PixelsOf[Asset(t)][viewer[t].view.view]
        from  == Min({i \in 1..Len(rasters) + 1 : i = Len(rasters) + 1 \/ Fits(i, bytes)})
        kept  == SubSeq(rasters, from, Len(rasters))
    IN  /\ At(t, "render")
        /\ IF bytes <= RasterBytes
           THEN /\ rasters' = Append(kept, [key |-> Key(viewer[t].view), value |-> viewer[t].bytes,
                                            bytes |-> bytes])
                /\ rasterSize' = rasterSize - BytesOf(SubSeq(rasters, 1, from - 1)) + bytes
           ELSE UNCHANGED <<rasters, rasterSize>>
        /\ shown' = [view |-> viewer[t].view, asset |-> viewer[t].bytes]
        /\ Done(t)
        /\ UNCHANGED <<disk, restarts, decays>>

----------------------------------------------------------------------------
(* The worker and the disk *)

\* The memory is gone, a temp file stays.
WorkerCrash ==
    /\ restarts < Restarts
    /\ restarts' = restarts + 1
    /\ rasters' = <<>>
    /\ rasterSize' = 0
    /\ viewer' = [t \in Viewers |-> AtEase]
    /\ UNCHANGED <<disk, shown, decays>>

\* Not between the digest and the use of the same bytes.
Decay == \E i \in DOMAIN disk :
    /\ decays < Decays
    /\ AssetLockFree
    /\ decays' = decays + 1
    /\ disk' = [disk EXCEPT ![i].good = FALSE]
    /\ UNCHANGED <<rasters, rasterSize, viewer, shown, restarts>>

CachesNext ==
    \/ WorkerCrash \/ Decay
    \/ \E t \in Viewers :
          \/ Ask(t) \/ RasterHit(t) \/ RasterMiss(t) \/ TooLarge(t) \/ Reuse(t) \/ MakeRoom(t)
          \/ Stream(t) \/ Keep(t) \/ FetchFails(t) \/ ServeImage(t) \/ LinkOriginal(t)
          \/ RenderFails(t) \/ Render(t)

CachesSpec == CachesInit /\ [][CachesNext]_cacheVars

----------------------------------------------------------------------------
(* Properties *)

\* The directory never holds more than its budget, with what a crashed worker left in it and
\* with the file that is arriving; the rendered pages stay within theirs, in bytes and in
\* number, and _raster_size is what they weigh (library.py:680-687, 877-886).
CachesWithin ==
    /\ BytesOf(disk) <= CacheBytes
    /\ rasterSize = BytesOf(rasters) /\ rasterSize <= RasterBytes
    /\ Len(rasters) <= RasterEntries

\* An answer is made of the bytes that the asked publication's manifest names, whatever
\* another publication had under the same book, and no file that went bad is believed.
ShowsWhatIsNamed == shown # NotShown => shown.asset = shown.view.asset

\* The caches keep their budgets and answer with what was asked (library.py:680-687, 848-886).
CachesHold == CachesWithin /\ ShowsWhatIsNamed
=============================================================================
