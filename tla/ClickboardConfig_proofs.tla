---------------------- MODULE ClickboardConfig_proofs -----------------------
(***************************************************************************)
(* The configuration in the flash (SaveConfig) and the clickboards that are*)
(* set up from it (ClickboardConfig).                                      *)
(***************************************************************************)
EXTENDS ClickboardConfig, TLAPS

(***************************************************************************)
(* For every number of pages, every set of tags and values and every point *)
(* at which the supply fails: the cache points at what is in the flash,    *)
(* the configuration in use is the one a start-up finds, and what is saved *)
(* is replaced in one step.                                                *)
(***************************************************************************)

(***************************************************************************)
(* The configuration in use verifies and is reached by the search: every   *)
(* page up to it is signed.                                                *)
(***************************************************************************)
InUse ==
    pxConfigInFlash # 0 =>
        /\ Verified(flash, pxConfigInFlash)
        /\ \A j \in 1 .. pxConfigInFlash : Signed(flash, j)

(***************************************************************************)
(* A write goes to the page behind the configuration in use, or to the     *)
(* first one of an erased sector.                                          *)
(***************************************************************************)
WriteInv ==
    /\ write.step = "erase" =>
        /\ pxConfigInFlash = 0
        /\ \A t \in Tags : cache[t].at = "null"
        /\ write.then = "program" => write.destination = 1
    /\ write.step \in {"program", "verify"} =>
        IF pxConfigInFlash = 0
        THEN /\ write.destination = 1
             /\ \A i \in Page : i > 1 => flash[i].kind = "blank"
        ELSE /\ write.destination = pxConfigInFlash + 1
             /\ write.destination < NPages

IInv == StoreTypeOK /\ InUse /\ CacheMirrorsFlash /\ WriteInv /\ FoundAgain

(***************************************************************************)
(* The search: there is at most one last signed page, and what it returns  *)
(* is that page, verified, or nothing.                                     *)
(***************************************************************************)
LEMMA LastIsUnique ==
    ASSUME NEW f, NEW i \in Page, NEW k \in Page, IsLastSigned(f, i), IsLastSigned(f, k)
    PROVE  i = k
<1>1. i \in Nat /\ k \in Nat /\ i <= NPages /\ k <= NPages /\ NPages \in Nat /\ 1 <= i /\ 1 <= k
  BY StoreAssumption DEF Page
<1>2. ~ i < k
  <2>1. SUFFICES ASSUME i < k PROVE FALSE
    OBVIOUS
  <2>2. i + 1 \in 1 .. k /\ i # NPages
    BY <1>1, <2>1
  <2> QED
    BY <2>2 DEF IsLastSigned
<1>3. ~ k < i
  <2>1. SUFFICES ASSUME k < i PROVE FALSE
    OBVIOUS
  <2>2. k + 1 \in 1 .. i /\ k # NPages
    BY <1>1, <2>1
  <2> QED
    BY <2>2 DEF IsLastSigned
<1> QED
  BY <1>1, <1>2, <1>3

LEMMA FindsLast ==
    ASSUME NEW f, NEW i \in Page, Verified(f, i), IsLastSigned(f, i)
    PROVE  FindConfig(f) = i
<1> DEFINE found == {k \in Page : Verified(f, k) /\ IsLastSigned(f, k)}
<1>1. i \in found
  OBVIOUS
<1>2. \A k \in found : k = i
  BY LastIsUnique
<1>3. FindConfig(f) = IF found = {} THEN 0 ELSE CHOOSE k \in found : TRUE
  BY DEF FindConfig
<1> QED
  BY <1>1, <1>2, <1>3

LEMMA FindsSound ==
    ASSUME NEW f
    PROVE  \/ FindConfig(f) = 0
           \/ /\ FindConfig(f) \in Page
              /\ Verified(f, FindConfig(f))
              /\ IsLastSigned(f, FindConfig(f))
<1> DEFINE found == {k \in Page : Verified(f, k) /\ IsLastSigned(f, k)}
<1>1. FindConfig(f) = IF found = {} THEN 0 ELSE CHOOSE k \in found : TRUE
  BY DEF FindConfig
<1>2. CASE found = {}
  BY <1>1, <1>2
<1>3. CASE found # {}
  <2>1. FindConfig(f) \in found
    BY <1>1, <1>3
  <2> QED
    BY <2>1
<1> QED
  BY <1>2, <1>3

LEMMA FindsNothing ==
    ASSUME NEW f, \A i \in Page : ~(Verified(f, i) /\ IsLastSigned(f, i))
    PROVE  FindConfig(f) = 0
BY FindsSound

LEMMA FindsNothingOnBlank ==
    ASSUME NEW f, \A i \in Page : f[i].kind = "blank"
    PROVE  FindConfig(f) = 0
BY FindsNothing DEF Verified

LEMMA FindIsPage == \A f : FindConfig(f) \in 0 .. NPages
BY FindsSound, StoreAssumption DEF Page

(***************************************************************************)
(* What the steps put on pages and into the cache has the right type.      *)
(***************************************************************************)
LEMMA Contents ==
    /\ Blank \in Content /\ Junk \in Content /\ Torn \in Content
    /\ \A l \in Lists : Config(l) \in Content
    /\ EmptyList \in Lists
    /\ Blank.kind = "blank"
BY DEF Blank, Junk, Torn, Config, Content, EmptyList, Lists, Stored

LEMMA SpoiledType ==
    ASSUME NEW l \in Lists
    PROVE  (\A bad : Garbled(l, bad) \in Content) /\ Spoiled(l) \subseteq Content
<1>1. \A bad : [t \in Tags |-> IF t \in bad /\ l[t] # NoValue THEN Garbage ELSE l[t]] \in Lists
  BY DEF Lists, Stored
<1>2. \A bad : Garbled(l, bad) \in Content
  BY <1>1, Contents DEF Garbled
<1> QED
  BY <1>2, Contents DEF Spoiled

LEMMA CacheType ==
    /\ NullCache \in [Tags -> Entry]
    /\ \A t \in Tags : NullCache[t].at = "null"
    /\ \A l \in Lists : CacheOf(l) \in [Tags -> Entry]
    /\ \A l \in Lists, t \in Tags :
        CacheOf(l)[t].at = "flash" => CacheOf(l)[t].value = l[t] /\ l[t] # NoValue
<1>1. Null \in Entry /\ Null.at = "null"
  BY DEF Null, Entry, Stored
<1>2. \A v \in Stored : InFlash(v) \in Entry /\ InFlash(v).value = v
  BY DEF InFlash, Entry
<1>3. NullCache \in [Tags -> Entry] /\ \A t \in Tags : NullCache[t].at = "null"
  BY <1>1 DEF NullCache
<1>4. ASSUME NEW l \in Lists
      PROVE  /\ CacheOf(l) \in [Tags -> Entry]
             /\ \A t \in Tags :
                  CacheOf(l)[t].at = "flash" => CacheOf(l)[t].value = l[t] /\ l[t] # NoValue
  <2>1. \A t \in Tags : l[t] \in Stored
    BY DEF Lists
  <2> QED
    BY <1>1, <1>2, <2>1 DEF CacheOf
<1> QED
  BY <1>3, <1>4

LEMMA InterruptedType ==
    ASSUME StoreTypeOK, NEW f \in Interrupted
    PROVE  f \in [Page -> Content]
<1>1. CASE write.step = "erase"
  <2>1. f \in HalfErased
    BY <1>1 DEF Interrupted
  <2>2. PICK how \in [UsedPage -> {"config", "torn", "junk", "erased"}], bad \in Losses :
          f = [i \in Page |-> IF i \in UsedPage THEN Left(flash[i], how[i], bad) ELSE Blank]
    BY <2>1 DEF HalfErased
  <2>3. ASSUME NEW i \in Page PROVE Left(flash[i], how[i], bad) \in Content
    <3>1. flash[i] \in Content /\ flash[i].list \in Lists
      BY DEF StoreTypeOK, Content
    <3> QED
      BY <3>1, Contents, SpoiledType DEF Left
  <2> QED
    BY <2>2, <2>3, Contents
<1>2. CASE write.step = "program"
  <2>1. PICK page \in {flash[write.destination]} \cup Spoiled(write.buffer) :
          f = [flash EXCEPT ![write.destination] = page]
    BY <1>2 DEF Interrupted
  <2>2. write.destination \in Page /\ write.buffer \in Lists
    BY DEF StoreTypeOK
  <2>3. page \in Content
    BY <2>1, <2>2, SpoiledType DEF StoreTypeOK
  <2> QED
    BY <2>1, <2>3 DEF StoreTypeOK
<1>3. CASE write.step \notin {"erase", "program"}
  BY <1>3 DEF Interrupted, StoreTypeOK
<1> QED
  BY <1>1, <1>2, <1>3

-----------------------------------------------------------------------------
(***************************************************************************)
(* The invariant, step by step.                                            *)
(***************************************************************************)
LEMMA InitEstablishes == InitStore => IInv
<1> SUFFICES ASSUME InitStore PROVE IInv
  OBVIOUS
<1>1. write.step = "idle" /\ pxConfigInFlash = 0 /\ flash = [i \in Page |-> Blank]
  BY DEF InitStore, Idle
<1>2. StoreTypeOK
  <2>1. write \in [step : {"idle", "erase", "program", "verify"}, then : {"idle", "program"},
                   destination : Page, buffer : Lists]
    BY Contents, StoreAssumption DEF InitStore, Idle, Page
  <2> QED
    BY <2>1, <1>1, Contents, CacheType, StoreAssumption DEF InitStore, StoreTypeOK
<1>3. InUse /\ WriteInv
  BY <1>1 DEF InUse, WriteInv
<1>4. CacheMirrorsFlash
  BY CacheType DEF InitStore, CacheMirrorsFlash
<1>5. FoundAgain
  <2>1. \A i \in Page : flash[i].kind = "blank"
    BY <1>1, Contents
  <2> QED
    BY <1>1, <2>1, FindsNothingOnBlank DEF FoundAgain
<1> QED
  BY <1>2, <1>3, <1>4, <1>5 DEF IInv

LEMMA SetKeeps ==
    ASSUME IInv, NEW T \in SUBSET Tags, NEW values \in [T -> Values \cup {NoValue}],
           SetConfig(values)
    PROVE  IInv'
<1>1. /\ flash' = flash /\ pxConfigInFlash' = pxConfigInFlash /\ write' = write /\ cuts' = cuts
      /\ write.step = "idle"
  BY DEF SetConfig
<1>2. \A t \in Tags : \/ cache'[t] = cache[t]
                      \/ cache'[t] \in Entry /\ cache'[t].at = "ram"
  <2>1. DOMAIN values = T
    OBVIOUS
  <2>2. \A v \in Values \cup {NoValue} : InRAM(v) \in Entry /\ InRAM(v).at = "ram"
    BY DEF InRAM, Entry, Stored
  <2>3. \A t \in T : values[t] \in Values \cup {NoValue}
    OBVIOUS
  <2> QED
    BY <2>1, <2>2, <2>3 DEF SetConfig
<1>3. cache' \in [Tags -> Entry]
  <2>1. cache' = [t \in Tags |-> IF t \in DOMAIN values THEN InRAM(values[t]) ELSE cache[t]]
    BY DEF SetConfig
  <2> QED
    BY <1>2, <2>1 DEF IInv, StoreTypeOK
<1>4. StoreTypeOK'
  BY <1>1, <1>3 DEF IInv, StoreTypeOK
<1>5. CacheMirrorsFlash'
  BY <1>1, <1>2 DEF IInv, CacheMirrorsFlash, Verified
<1>6. InUse' /\ WriteInv' /\ FoundAgain'
  BY <1>1 DEF IInv, InUse, WriteInv, FoundAgain, Leftover, Verified, Signed
<1> QED
  BY <1>4, <1>5, <1>6 DEF IInv

LEMMA EraseKeeps ==
    ASSUME IInv, EraseConfig
    PROVE  IInv'
<1>1. /\ flash' = flash /\ pxConfigInFlash' = 0 /\ cache' = NullCache /\ cuts' = cuts
      /\ write' = [step |-> "erase", then |-> "idle", destination |-> 1, buffer |-> EmptyList]
  BY DEF EraseConfig, Idle
<1>2. StoreTypeOK'
  <2>1. write' \in [step : {"idle", "erase", "program", "verify"}, then : {"idle", "program"},
                    destination : Page, buffer : Lists]
    BY <1>1, Contents, StoreAssumption DEF Page
  <2> QED
    BY <1>1, <2>1, CacheType, StoreAssumption DEF IInv, StoreTypeOK
<1>3. InUse' /\ WriteInv' /\ CacheMirrorsFlash' /\ FoundAgain'
  BY <1>1, CacheType DEF InUse, WriteInv, CacheMirrorsFlash, FoundAgain
<1> QED
  BY <1>2, <1>3 DEF IInv

LEMMA WriteKeeps ==
    ASSUME IInv, WriteConfig
    PROVE  IInv'
<1>0. /\ flash' = flash /\ cuts' = cuts
      /\ write' = [step |-> IF Room THEN "program" ELSE "erase", then |-> "program",
                   destination |-> IF Room THEN pxConfigInFlash + 1 ELSE 1,
                   buffer |-> Buffered]
  BY DEF WriteConfig
<1>1. Buffered \in Lists
  <2>1. \A t \in Tags : cache[t].value \in Stored
    BY DEF IInv, StoreTypeOK, Entry
  <2> QED
    BY <2>1 DEF Buffered, Lists
<1>2. pxConfigInFlash \in 0 .. NPages /\ NPages \in Nat /\ NPages >= 2
  BY StoreAssumption DEF IInv, StoreTypeOK
<1>3. CASE Room
  <2>1. /\ pxConfigInFlash # 0 /\ pxConfigInFlash + 1 < NPages /\ pxConfigInFlash + 1 \in Page
        /\ cache' = cache /\ pxConfigInFlash' = pxConfigInFlash
        /\ write' = [step |-> "program", then |-> "program",
                     destination |-> pxConfigInFlash + 1, buffer |-> Buffered]
    BY <1>0, <1>2, <1>3 DEF WriteConfig, Room, Page
  <2>2. StoreTypeOK'
    BY <1>0, <1>1, <2>1 DEF IInv, StoreTypeOK
  <2>3. InUse' /\ CacheMirrorsFlash'
    BY <1>0, <2>1 DEF IInv, InUse, CacheMirrorsFlash, Verified, Signed
  <2>4. WriteInv'
    BY <1>0, <2>1 DEF WriteInv
  <2>5. FoundAgain'
    BY <1>0, <2>1 DEF WriteConfig, IInv, FoundAgain, Leftover, Signed
  <2> QED
    BY <2>2, <2>3, <2>4, <2>5 DEF IInv
<1>4. CASE ~Room
  <2>1. /\ cache' = NullCache /\ pxConfigInFlash' = 0
        /\ write' = [step |-> "erase", then |-> "program", destination |-> 1, buffer |-> Buffered]
    BY <1>0, <1>4 DEF WriteConfig
  <2>2. StoreTypeOK'
    <3>1. 1 \in Page
      BY <1>2 DEF Page
    <3> QED
      BY <1>0, <1>1, <1>2, <2>1, <3>1, CacheType DEF IInv, StoreTypeOK
  <2>3. InUse' /\ WriteInv' /\ CacheMirrorsFlash' /\ FoundAgain'
    BY <2>1, CacheType DEF InUse, WriteInv, CacheMirrorsFlash, FoundAgain
  <2> QED
    BY <2>2, <2>3 DEF IInv
<1> QED
  BY <1>3, <1>4

LEMMA EraseSectorKeeps ==
    ASSUME IInv, EraseSector
    PROVE  IInv'
<1>1. /\ cache' = cache /\ pxConfigInFlash' = pxConfigInFlash /\ cuts' = cuts
      /\ flash' = [i \in Page |-> Blank]
      /\ write.step = "erase" /\ pxConfigInFlash = 0 /\ \A t \in Tags : cache[t].at = "null"
  BY DEF EraseSector, IInv, WriteInv
<1>2. /\ write' = [step |-> write.then, then |-> write.then, destination |-> write.destination,
                   buffer |-> write.buffer]
      /\ write.then \in {"idle", "program"} /\ write.destination \in Page /\ write.buffer \in Lists
  BY DEF EraseSector, IInv, StoreTypeOK
<1>3. \A i \in Page : flash'[i].kind = "blank"
  BY <1>1, Contents
<1>4. StoreTypeOK'
  <2>1. flash' \in [Page -> Content]
    BY <1>1, Contents
  <2>2. write' \in [step : {"idle", "erase", "program", "verify"}, then : {"idle", "program"},
                    destination : Page, buffer : Lists]
    BY <1>2
  <2> QED
    BY <1>1, <2>1, <2>2 DEF IInv, StoreTypeOK
<1>5. InUse' /\ CacheMirrorsFlash'
  BY <1>1 DEF InUse, CacheMirrorsFlash
<1>6. WriteInv'
  BY <1>1, <1>2, <1>3 DEF IInv, WriteInv
<1>7. FoundAgain'
  <2>1. FindConfig(flash') = 0
    BY <1>3, FindsNothingOnBlank
  <2> QED
    BY <1>1, <2>1 DEF FoundAgain
<1> QED
  BY <1>4, <1>5, <1>6, <1>7 DEF IInv

LEMMA ProgramKeeps ==
    ASSUME IInv, ProgramPage
    PROVE  IInv'
<1>1. PICK page \in Programmed(flash[write.destination], write.buffer) :
        flash' = [flash EXCEPT ![write.destination] = page]
  BY DEF ProgramPage
<1>2. /\ cache' = cache /\ pxConfigInFlash' = pxConfigInFlash /\ cuts' = cuts
      /\ write.step = "program"
      /\ write.destination \in Page /\ write.buffer \in Lists
      /\ flash \in [Page -> Content]
  BY DEF ProgramPage, IInv, StoreTypeOK
<1>3. write' = [step |-> "verify", then |-> write.then, destination |-> write.destination,
                buffer |-> write.buffer]
  BY DEF ProgramPage, IInv, StoreTypeOK
<1>4. page \in Content
  BY <1>1, <1>2, Contents, SpoiledType DEF Programmed
<1>5. flash' \in [Page -> Content] /\ \A i \in Page : i # write.destination => flash'[i] = flash[i]
  BY <1>1, <1>2, <1>4
<1>6. StoreTypeOK'
  BY <1>2, <1>3, <1>5 DEF IInv, StoreTypeOK
<1>7. pxConfigInFlash \in 0 .. NPages /\ NPages \in Nat /\ NPages >= 2
  BY StoreAssumption DEF IInv, StoreTypeOK
<1>8. pxConfigInFlash # 0 => \A j \in 1 .. pxConfigInFlash : j \in Page /\ flash'[j] = flash[j]
  <2>1. pxConfigInFlash # 0 => write.destination = pxConfigInFlash + 1
    BY <1>2 DEF IInv, WriteInv
  <2> QED
    BY <1>5, <1>7, <2>1 DEF Page
<1>9. InUse'
  <2>1. SUFFICES ASSUME pxConfigInFlash # 0
                 PROVE  /\ Verified(flash', pxConfigInFlash)
                        /\ \A j \in 1 .. pxConfigInFlash : Signed(flash', j)
    BY <1>2 DEF InUse
  <2>2. pxConfigInFlash \in 1 .. pxConfigInFlash
    BY <2>1, <1>7
  <2> QED
    BY <2>1, <2>2, <1>8 DEF IInv, InUse, Verified, Signed
<1>10. CacheMirrorsFlash'
  <2>1. pxConfigInFlash # 0 => flash'[pxConfigInFlash] = flash[pxConfigInFlash]
    BY <1>7, <1>8
  <2> QED
    BY <1>2, <2>1 DEF IInv, CacheMirrorsFlash, Verified
<1>11. WriteInv'
  BY <1>2, <1>3, <1>5 DEF IInv, WriteInv
<1>12. FoundAgain'
  BY <1>3 DEF FoundAgain
<1> QED
  BY <1>6, <1>9, <1>10, <1>11, <1>12 DEF IInv

LEMMA VerifyKeeps ==
    ASSUME IInv, VerifyWrite
    PROVE  IInv'
<1> DEFINE d == write.destination
<1>1. /\ flash' = flash /\ cuts' = cuts /\ write.step = "verify"
      /\ write' = [step |-> "idle", then |-> "idle", destination |-> 1, buffer |-> EmptyList]
  BY DEF VerifyWrite, Idle
<1>2. /\ d \in Page /\ NPages \in Nat /\ NPages >= 2 /\ pxConfigInFlash \in 0 .. NPages
      /\ flash \in [Page -> Content]
      /\ Page = 1 .. NPages
  BY StoreAssumption DEF IInv, StoreTypeOK, Page
<1>3. IF pxConfigInFlash = 0
      THEN d = 1 /\ \A i \in Page : i > 1 => flash[i].kind = "blank"
      ELSE d = pxConfigInFlash + 1 /\ d < NPages
  BY <1>1 DEF IInv, WriteInv
<1>4. write' \in [step : {"idle", "erase", "program", "verify"}, then : {"idle", "program"},
                  destination : Page, buffer : Lists]
  BY <1>1, <1>2, Contents
<1>5. WriteInv'
  BY <1>1 DEF WriteInv
<1>6. CASE Verified(flash, d)
  <2>1. pxConfigInFlash' = d /\ cache' = CacheOf(flash[d].list)
    BY <1>6 DEF VerifyWrite
  <2>2. flash[d].list \in Lists
    BY <1>2 DEF Content
  <2>3. StoreTypeOK'
    BY <1>1, <1>2, <1>4, <2>1, <2>2, CacheType DEF IInv, StoreTypeOK
  <2>4. CacheMirrorsFlash'
    <3>1. d # 0
      BY <1>2
    <3> QED
      BY <1>1, <1>6, <2>1, <2>2, <3>1, CacheType DEF CacheMirrorsFlash, Verified
  <2>5. \A j \in 1 .. d : Signed(flash, j)
    <3>1. Signed(flash, d)
      BY <1>6 DEF Verified, Signed
    <3>2. \A j \in 1 .. d : j = d \/ (pxConfigInFlash # 0 /\ j \in 1 .. pxConfigInFlash)
      BY <1>2, <1>3
    <3> QED
      BY <3>1, <3>2 DEF IInv, InUse
  <2>6. InUse'
    BY <1>1, <1>6, <2>1, <2>5 DEF InUse, Verified, Signed
  <2>7. FoundAgain'
    <3>1. CASE d + 1 \in Page /\ Signed(flash, d + 1)
      <4>1. d # 0 /\ d + 1 > d
        BY <1>2
      <4> QED
        BY <1>1, <2>1, <3>1, <4>1 DEF FoundAgain, Leftover, Signed
    <3>2. CASE ~(d + 1 \in Page /\ Signed(flash, d + 1))
      <4>1. d = NPages \/ d + 1 \in Page
        BY <1>2
      <4>2. IsLastSigned(flash, d)
        BY <2>5, <3>2, <4>1 DEF IsLastSigned
      <4>3. FindConfig(flash) = d
        BY <1>2, <1>6, <4>2, FindsLast
      <4> QED
        BY <1>1, <2>1, <4>3 DEF FoundAgain
    <3> QED
      BY <3>1, <3>2
  <2> QED
    BY <1>5, <2>3, <2>4, <2>6, <2>7 DEF IInv
<1>7. CASE ~Verified(flash, d)
  <2>1. pxConfigInFlash' = pxConfigInFlash /\ cache' = cache
    BY <1>7 DEF VerifyWrite
  <2>2. StoreTypeOK'
    BY <1>1, <1>4, <2>1 DEF IInv, StoreTypeOK
  <2>3. CacheMirrorsFlash' /\ InUse'
    BY <1>1, <2>1 DEF IInv, CacheMirrorsFlash, InUse, Verified, Signed
  <2>4. CASE pxConfigInFlash = 0
    <3>1. d = 1 /\ 2 \in Page /\ flash[2].kind = "blank"
      BY <1>2, <1>3, <2>4
    <3>2. ~Signed(flash, 2)
      BY <3>1 DEF Signed
    <3>3. ASSUME NEW i \in Page, Verified(flash, i), IsLastSigned(flash, i)
          PROVE  FALSE
      <4>1. i # 1
        BY <1>7, <3>1, <3>3
      <4>2. 2 \in 1 .. i
        BY <1>2, <4>1
      <4> QED
        BY <3>2, <3>3, <4>2 DEF IsLastSigned
    <3>4. FindConfig(flash) = 0
      BY <3>3, FindsNothing
    <3> QED
      BY <1>1, <1>5, <2>1, <2>2, <2>3, <2>4, <3>4 DEF IInv, FoundAgain
  <2>5. CASE pxConfigInFlash # 0
    <3>1. d = pxConfigInFlash + 1 /\ d \in Page /\ d > pxConfigInFlash /\ pxConfigInFlash \in Page
      BY <1>2, <1>3, <2>5
    <3>2. CASE Signed(flash, d)
      BY <1>1, <1>5, <2>1, <2>2, <2>3, <2>5, <3>1, <3>2 DEF IInv, FoundAgain, Leftover, Signed
    <3>3. CASE ~Signed(flash, d)
      <4>1. IsLastSigned(flash, pxConfigInFlash) /\ Verified(flash, pxConfigInFlash)
        BY <2>5, <3>1, <3>3 DEF IInv, InUse, IsLastSigned
      <4>2. FindConfig(flash) = pxConfigInFlash
        BY <3>1, <4>1, FindsLast
      <4> QED
        BY <1>1, <1>5, <2>1, <2>2, <2>3, <4>2 DEF IInv, FoundAgain
    <3> QED
      BY <3>2, <3>3
  <2> QED
    BY <2>4, <2>5
<1> QED
  BY <1>6, <1>7

(***************************************************************************)
(* Start-up makes everything true again, whatever is in the flash.         *)
(***************************************************************************)
LEMMA RestartKeeps ==
    ASSUME IInv, Restart
    PROVE  IInv'
<1>1. PICK f \in Interrupted : flash' = f /\ ReadConfig(f)
  BY DEF Restart
<1>2. f \in [Page -> Content]
  BY <1>1, InterruptedType DEF IInv
<1> DEFINE i == FindConfig(f)
<1>3. /\ flash' = f /\ pxConfigInFlash' = i
      /\ cache' = IF i = 0 THEN NullCache ELSE CacheOf(f[i].list)
      /\ write' = [step |-> "idle", then |-> "idle", destination |-> 1, buffer |-> EmptyList]
  BY <1>1 DEF Restart, ReadConfig, Idle
<1>4. i = 0 \/ (i \in Page /\ i # 0 /\ Verified(f, i) /\ \A j \in 1 .. i : Signed(f, j))
  BY FindsSound, StoreAssumption DEF IsLastSigned, Page
<1>5. i = 0 \/ f[i].list \in Lists
  BY <1>2, <1>4 DEF Content
<1>6. StoreTypeOK'
  <2>1. cuts' \in 0 .. MaxCuts
    BY StoreAssumption DEF Restart, IInv, StoreTypeOK
  <2>2. write' \in [step : {"idle", "erase", "program", "verify"}, then : {"idle", "program"},
                    destination : Page, buffer : Lists]
    BY <1>3, Contents, StoreAssumption DEF Page
  <2>3. cache' \in [Tags -> Entry]
    BY <1>3, <1>5, CacheType
  <2>4. pxConfigInFlash' \in 0 .. NPages
    BY <1>3, FindIsPage
  <2> QED
    BY <1>2, <1>3, <2>1, <2>2, <2>3, <2>4 DEF StoreTypeOK
<1>7. InUse'
  BY <1>3, <1>4 DEF InUse, Verified, Signed
<1>8. CacheMirrorsFlash'
  BY <1>3, <1>4, <1>5, CacheType DEF CacheMirrorsFlash, Verified
<1>9. WriteInv' /\ FoundAgain'
  BY <1>3 DEF WriteInv, FoundAgain
<1> QED
  BY <1>6, <1>7, <1>8, <1>9 DEF IInv

LEMMA StepKeeps == IInv /\ [NextStore]_storeVars => IInv'
<1> SUFFICES ASSUME IInv, [NextStore]_storeVars PROVE IInv'
  OBVIOUS
<1>1. CASE \E T \in SUBSET Tags : \E values \in [T -> Values \cup {NoValue}] : SetConfig(values)
  BY <1>1, SetKeeps
<1>2. CASE EraseConfig
  BY <1>2, EraseKeeps
<1>3. CASE WriteConfig
  BY <1>3, WriteKeeps
<1>4. CASE EraseSector
  BY <1>4, EraseSectorKeeps
<1>5. CASE ProgramPage
  BY <1>5, ProgramKeeps
<1>6. CASE VerifyWrite
  BY <1>6, VerifyKeeps
<1>7. CASE Restart
  BY <1>7, RestartKeeps
<1>8. CASE UNCHANGED storeVars
  BY <1>8 DEF storeVars, IInv, StoreTypeOK, InUse, CacheMirrorsFlash, WriteInv, FoundAgain,
     Leftover, Verified, Signed
<1> QED
  BY <1>1, <1>2, <1>3, <1>4, <1>5, <1>6, <1>7, <1>8 DEF NextStore

(***************************************************************************)
(* Every reachable state satisfies the invariant.                          *)
(***************************************************************************)
THEOREM StoreInvariant == StoreSpec => []IInv
<1> QED
  BY InitEstablishes, StepKeeps, PTL DEF StoreSpec

(***************************************************************************)
(* The cache never points at a value that is not in the flash's current    *)
(* configuration.                                                          *)
(***************************************************************************)
THEOREM CacheIsTrue == StoreSpec => []CacheMirrorsFlash
<1>1. IInv => CacheMirrorsFlash
  BY DEF IInv
<1> QED
  BY <1>1, StoreInvariant, PTL

(***************************************************************************)
(* What the firmware uses is what it finds when it starts again.           *)
(***************************************************************************)
THEOREM StoreSurvivesRestart == StoreSpec => []FoundAgain
<1>1. IInv => FoundAgain
  BY DEF IInv
<1> QED
  BY <1>1, StoreInvariant, PTL

-----------------------------------------------------------------------------
(***************************************************************************)
(* A page that was programmed as it should be is the one a search finds,   *)
(* unless there are signed pages behind it.                                *)
(***************************************************************************)
LEMMA ProgrammedIsFound ==
    ASSUME IInv, write.step = "program", ~Leftover, NEW f,
           f = [flash EXCEPT ![write.destination] = Config(write.buffer)]
    PROVE  FindConfig(f) = write.destination /\ f[write.destination].list = write.buffer
<1> DEFINE d == write.destination
<1>1. /\ d \in Page /\ NPages \in Nat /\ NPages >= 2 /\ pxConfigInFlash \in 0 .. NPages
      /\ flash \in [Page -> Content] /\ Page = 1 .. NPages
  BY StoreAssumption DEF IInv, StoreTypeOK, Page
<1>2. /\ f[d] = Config(write.buffer)
      /\ \A i \in Page : i # d => f[i] = flash[i]
  BY <1>1
<1>3. IF pxConfigInFlash = 0
      THEN d = 1 /\ \A i \in Page : i > 1 => flash[i].kind = "blank"
      ELSE d = pxConfigInFlash + 1 /\ d < NPages
  BY DEF IInv, WriteInv
<1>4. d < NPages /\ d + 1 \in Page /\ d + 1 # d
  BY <1>1, <1>3
<1>5. Signed(f, d) /\ Verified(f, d) /\ f[d].list = write.buffer
  BY <1>2, <1>4 DEF Config, Signed, Verified
<1>6. ~Signed(f, d + 1)
  <2>1. CASE pxConfigInFlash = 0
    BY <1>1, <1>2, <1>3, <1>4, <2>1 DEF Signed
  <2>2. CASE pxConfigInFlash # 0
    <3>1. d + 1 > pxConfigInFlash
      BY <1>1, <1>3, <2>2
    <3> QED
      BY <1>2, <1>4, <2>2, <3>1 DEF Leftover, Signed
  <2> QED
    BY <2>1, <2>2
<1>7. \A j \in 1 .. d : Signed(f, j)
  <2>1. \A j \in 1 .. d : j = d \/ (pxConfigInFlash # 0 /\ j \in 1 .. pxConfigInFlash /\ j \in Page /\ j # d)
    BY <1>1, <1>3
  <2> QED
    BY <1>2, <1>5, <2>1 DEF IInv, InUse, Signed
<1>8. IsLastSigned(f, d)
  BY <1>6, <1>7 DEF IsLastSigned
<1> QED
  BY <1>1, <1>5, <1>8, FindsLast

(***************************************************************************)
(* What is saved changes to what is being written and to nothing else, or  *)
(* is lost as the property says.                                           *)
(***************************************************************************)
LEMMA StepReplaces ==
    ASSUME IInv, [NextStore]_storeVars, Saved' # Saved, write.step # "erase"
    PROVE  /\ write.step = "program"
           /\ \/ Saved' = write.buffer
              \/ flash'[write.destination] # Config(write.buffer)
              \/ Leftover
<1>1. flash' # flash
  BY DEF Saved
<1>2. \/ ProgramPage
      \/ Restart /\ write.step = "program"
  <2>1. ~Restart \/ write.step = "program"
    <3>1. SUFFICES ASSUME Restart, write.step # "program" PROVE FALSE
      OBVIOUS
    <3>2. Interrupted = {flash}
      BY <3>1 DEF Interrupted
    <3> QED
      BY <1>1, <3>1, <3>2 DEF Restart
  <2> QED
    BY <1>1, <2>1 DEF NextStore, storeVars, SetConfig, EraseConfig, WriteConfig, EraseSector,
       VerifyWrite
<1>3. write.step = "program"
  BY <1>2 DEF ProgramPage
<1>4. PICK page : flash' = [flash EXCEPT ![write.destination] = page]
  <2>1. CASE ProgramPage
    BY <2>1 DEF ProgramPage
  <2>2. CASE Restart /\ write.step = "program"
    BY <2>2 DEF Restart, Interrupted
  <2> QED
    BY <1>2, <2>1, <2>2
<1>5. flash'[write.destination] = page
  BY <1>4 DEF IInv, StoreTypeOK
<1>6. CASE page # Config(write.buffer)
  BY <1>3, <1>5, <1>6
<1>7. CASE page = Config(write.buffer) /\ ~Leftover
  <2>1. /\ FindConfig(flash') = write.destination
        /\ flash'[write.destination].list = write.buffer
    BY <1>3, <1>4, <1>7, ProgrammedIsFound
  <2>2. write.destination # 0
    BY StoreAssumption DEF IInv, StoreTypeOK, Page
  <2> QED
    BY <1>3, <2>1, <2>2 DEF Saved
<1> QED
  BY <1>3, <1>6, <1>7

THEOREM WritesReplace == StoreSpec => ReplacedAtOnce
<1>1. IInv /\ [NextStore]_storeVars =>
        [Saved' # Saved =>
            \/ write.step = "erase"
            \/ /\ write.step = "program"
               /\ \/ Saved' = write.buffer
                  \/ flash'[write.destination] # Config(write.buffer)
                  \/ Leftover]_flash
  BY StepReplaces
<1> QED
  BY <1>1, StoreInvariant, PTL DEF StoreSpec, ReplacedAtOnce
-----------------------------------------------------------------------------
(***************************************************************************)
(* The clickboard manager uses the store as the store expects, and between *)
(* requests it runs what it would save: for every number of ports and      *)
(* clickboards, and wherever a restart comes.                              *)
(***************************************************************************)
Runs(b, p) == task[b] # "none" /\ xPortsActive[b] = p

(***************************************************************************)
(* A clickboard has a task when it is active, except while its activation  *)
(* waits; that one is not in the cache yet.  The server is then not in the *)
(* store, and no two clickboards are on one port.                          *)
(***************************************************************************)
ServerInv ==
    /\ \A b \in Boards : task[b] # "none" <=> (xPortsActive[b] # None /\ b # server.board)
    /\ \A b, c \in Boards : xPortsActive[b] = xPortsActive[c] /\ xPortsActive[b] # None => b = c
    /\ server # Serving =>
        /\ write.step = "idle"
        /\ xPortsActive[server.board] = server.port

(***************************************************************************)
(* What is cached, and what is being written, is running; and as long as   *)
(* nothing was erased or failed, what is running is cached or being        *)
(* written.                                                                *)
(***************************************************************************)
CacheInv ==
    /\ \A b \in Boards, p \in Ports : cache[p].value = b => Runs(b, p)
    /\ write.step = "idle" /\ ~erased =>
        \A b \in Boards, p \in Ports : Runs(b, p) => cache[p].value = b

BufferInv ==
    write.step # "idle" =>
        /\ write.then = "idle" => erased /\ write.step = "erase"
        /\ write.then = "program" =>
            \A b \in Boards, p \in Ports : write.buffer[p] = b => Runs(b, p)
        /\ ~erased => \A b \in Boards, p \in Ports : Runs(b, p) => write.buffer[p] = b

(***************************************************************************)
(* No configuration in the flash has a clickboard on two ports, and one    *)
(* that was just programmed has what was to be written, or garbage.        *)
(***************************************************************************)
Unique(list) == \A p, q \in Ports : list[p] = list[q] /\ list[p] \in Boards => p = q

FlashInv ==
    /\ \A i \in Page : flash[i].kind = "config" => Unique(flash[i].list)
    /\ write.step = "verify" /\ flash[write.destination].kind = "config" =>
        \A t \in Tags : flash[write.destination].list[t] \in {write.buffer[t], Garbage}

BoardsType ==
    /\ xPortsActive \in [Boards -> Ports \cup {None}]
    /\ task \in [Boards -> {"none", "ready", "bus"}]
    /\ xI2C1_Mutex \in {"free", "dead"} \cup Boards
    /\ server \in [board : Boards, port : Ports] \cup {Serving}
    /\ erased \in BOOLEAN

ManagerInv == StoreTypeOK /\ BoardsType /\ ServerInv /\ CacheInv /\ BufferInv /\ FlashInv

LEMMA NotABoard ==
    /\ None \notin Boards /\ None \notin Ports /\ NoValue \notin Boards /\ Garbage \notin Boards
    /\ Serving.board = None
BY BoardsAssumption, StoreAssumption DEF Boards, Ports, Serving

-----------------------------------------------------------------------------
(***************************************************************************)
(* Each step of the manager is one of the store, or leaves it alone.       *)
(***************************************************************************)
LEMMA ActivateIsSet ==
    ASSUME StoreTypeOK, BoardsType, NEW b \in Boards, NEW p \in Ports, Activate(b, p)
    PROVE  \E T \in SUBSET Tags : \E values \in [T -> Values \cup {NoValue}] : SetConfig(values)
<1> DEFINE out == Active(p) \cup {c \in {b} : xPortsActive[b] # None}
           v1 == [q \in Freed(out) |-> NoValue]
           v2 == [q \in Freed(out) \cup {p} |-> IF q = p THEN b ELSE NoValue]
<1>1. Freed(out) \subseteq Tags
  BY NotABoard DEF Freed, Active, BoardsType, Ports
<1>2. SetConfig(v1) \/ SetConfig(v2)
  BY DEF Activate
<1>3. v1 \in [Freed(out) -> Values \cup {NoValue}]
  OBVIOUS
<1>4. v2 \in [Freed(out) \cup {p} -> Values \cup {NoValue}]
  BY DEF Boards
<1> HIDE DEF v1, v2, out
<1>5. Freed(out) \in SUBSET Tags /\ (Freed(out) \cup {p}) \in SUBSET Tags
  BY <1>1 DEF Ports
<1> QED
  BY <1>2, <1>3, <1>4, <1>5

LEMMA OneTag ==
    ASSUME NEW p \in Ports, NEW v \in Values \cup {NoValue}, SetConfig([q \in {p} |-> v])
    PROVE  \E T \in SUBSET Tags : \E values \in [T -> Values \cup {NoValue}] : SetConfig(values)
<1>1. {p} \in SUBSET Tags /\ [q \in {p} |-> v] \in [{p} -> Values \cup {NoValue}]
  BY DEF Ports
<1> QED
  BY <1>1

LEMMA StepIsStoreStep ==
    ASSUME StoreTypeOK, BoardsType, [Next]_vars
    PROVE  [NextStore]_storeVars
<1>1. ASSUME NEW b \in Boards, NEW p \in Ports, Activate(b, p)
      PROVE  NextStore
  BY <1>1, ActivateIsSet DEF NextStore
<1>2. CASE FinishActivate
  <2>1. server.port \in Ports /\ server.board \in Values
    BY <1>2 DEF FinishActivate, BoardsType, Boards
  <2> QED
    BY <1>2, <2>1, OneTag DEF FinishActivate, NextStore
<1>3. ASSUME NEW p \in Ports, Deactivate(p)
      PROVE  NextStore
  <2>1. SetConfig([q \in {p} |-> NoValue])
    BY <1>3 DEF Deactivate
  <2> QED
    BY <2>1, OneTag DEF NextStore
<1>4. CASE Write
  BY <1>4 DEF Write, NextStore
<1>5. CASE Erase
  BY <1>5 DEF Erase, NextStore
<1>6. CASE Store
  BY <1>6 DEF Store, NextStore
<1>7. ASSUME NEW b \in Boards, TakeMutex(b) \/ GiveMutex(b)
      PROVE  UNCHANGED storeVars
  BY <1>7 DEF TakeMutex, GiveMutex
<1>8. CASE RestartBoards
  BY <1>8 DEF RestartBoards, NextStore
<1>9. CASE UNCHANGED vars
  BY <1>9 DEF vars
<1> QED
  BY <1>1, <1>2, <1>3, <1>4, <1>5, <1>6, <1>7, <1>8, <1>9 DEF Next

-----------------------------------------------------------------------------
(***************************************************************************)
(* The invariant, step by step.  While no write is under way only the      *)
(* running clickboards and the cache count.                                *)
(***************************************************************************)
LEMMA SetValue ==
    ASSUME NEW T, NEW values, DOMAIN values = T, SetConfig(values)
    PROVE  /\ \A t \in Tags : cache'[t].value = IF t \in T THEN values[t] ELSE cache[t].value
           /\ write' = write /\ flash' = flash /\ write.step = "idle"
BY DEF SetConfig, InRAM

LEMMA IdleKeeps ==
    ASSUME ManagerInv, write' = write, flash' = flash, write.step = "idle"
    PROVE  BufferInv' /\ FlashInv'
BY DEF ManagerInv, BufferInv, FlashInv, Unique

LEMMA ActivateKeeps ==
    ASSUME ManagerInv, NEW b \in Boards, NEW p \in Ports, Activate(b, p)
    PROVE  BoardsType' /\ ServerInv' /\ CacheInv' /\ BufferInv' /\ FlashInv'
<1> DEFINE out == Active(p) \cup {c \in {b} : xPortsActive[b] # None}
           waits == b \in InitTakesMutex /\ xI2C1_Mutex # "free"
           T == IF waits THEN Freed(out) ELSE Freed(out) \cup {p}
           values == [q \in T |-> IF q = p /\ ~waits THEN b ELSE NoValue]
<1>1. /\ server = Serving /\ write.step = "idle" /\ erased' = erased
      /\ xPortsActive' = [c \in Boards |-> IF c = b THEN p
                                           ELSE IF c \in out THEN None ELSE xPortsActive[c]]
      /\ task' = [c \in Boards |-> IF c = b /\ ~waits THEN "ready"
                                   ELSE IF c \in out THEN "none" ELSE task[c]]
      /\ xI2C1_Mutex' = IF xI2C1_Mutex \in out THEN "dead" ELSE xI2C1_Mutex
      /\ server' = IF waits THEN [board |-> b, port |-> p] ELSE Serving
  BY DEF Activate, BetweenRequests, Deinit
<1>2. SetConfig(values)
  <2>1. CASE waits
    <3>1. SetConfig([q \in Freed(out) |-> NoValue])
      BY <2>1 DEF Activate
    <3>2. values = [q \in Freed(out) |-> NoValue]
      BY <2>1
    <3> QED
      BY <3>1, <3>2
  <2>2. CASE ~waits
    <3>1. SetConfig([q \in Freed(out) \cup {p} |-> IF q = p THEN b ELSE NoValue])
      BY <2>2 DEF Activate
    <3>2. values = [q \in Freed(out) \cup {p} |-> IF q = p THEN b ELSE NoValue]
      BY <2>2
    <3> QED
      BY <3>1, <3>2
  <2> QED
    BY <2>1, <2>2
<1>3. /\ \A t \in Tags : cache'[t].value = IF t \in T THEN values[t] ELSE cache[t].value
      /\ write' = write /\ flash' = flash
  BY <1>2, SetValue
<1>4. /\ \A c \in Boards : xPortsActive[c] = p => c \in out
      /\ xPortsActive[b] # None => b \in out
      /\ \A c \in out : c \in Boards
      /\ \A c \in out : xPortsActive[c] \in Freed(out)
      /\ \A q \in Freed(out) : \E c \in out : xPortsActive[c] = q
      /\ \A c \in out : c = b \/ xPortsActive[c] = p
  BY DEF Active, Freed
<1>5. \A q \in Ports : values[q] = values[q] /\ (q \in T => values[q] = IF q = p /\ ~waits THEN b ELSE NoValue)
  OBVIOUS
<1>6. p \in T <=> (~waits \/ p \in Freed(out))
  OBVIOUS
<1>7. \A q : q \in T /\ q # p => q \in Freed(out)
  OBVIOUS
<1>8. Freed(out) \subseteq T
  OBVIOUS
<1> HIDE DEF out, values, T
<1>9. BufferInv' /\ FlashInv'
  BY <1>1, <1>3, IdleKeeps
<1>10. BoardsType'
  <2>1. [board |-> b, port |-> p] \in [board : Boards, port : Ports]
    OBVIOUS
  <2>2. xPortsActive' \in [Boards -> Ports \cup {None}] /\ task' \in [Boards -> {"none", "ready", "bus"}]
    BY <1>1 DEF ManagerInv, BoardsType
  <2>3. xI2C1_Mutex' \in {"free", "dead"} \cup Boards /\ erased' \in BOOLEAN
    BY <1>1 DEF ManagerInv, BoardsType
  <2>4. server' \in [board : Boards, port : Ports] \cup {Serving}
    BY <1>1, <2>1
  <2> QED
    BY <2>2, <2>3, <2>4 DEF BoardsType
<1>11. \A c \in Boards : (task[c] # "none" <=> xPortsActive[c] # None)
  BY <1>1, NotABoard DEF ManagerInv, ServerInv
<1>12. /\ \A c \in Boards : c # b /\ c \notin out => xPortsActive'[c] = xPortsActive[c] /\ task'[c] = task[c]
       /\ \A c \in Boards : c # b /\ c \in out => xPortsActive'[c] = None /\ task'[c] = "none"
       /\ xPortsActive'[b] = p
       /\ ~waits => task'[b] = "ready" /\ server' = Serving
       /\ waits => task'[b] = "none" /\ server' = [board |-> b, port |-> p]
  BY <1>1, <1>4, <1>11 DEF ManagerInv, BoardsType
<1>13. ServerInv'
  <2>1. ASSUME NEW c \in Boards
        PROVE  task'[c] # "none" <=> (xPortsActive'[c] # None /\ c # server'.board)
    BY <1>11, <1>12, NotABoard
  <2>2. ASSUME NEW c \in Boards, NEW d \in Boards, xPortsActive'[c] = xPortsActive'[d],
               xPortsActive'[c] # None
        PROVE  c = d
    BY <1>4, <1>12, <2>2 DEF ManagerInv, ServerInv
  <2>3. server' # Serving => write'.step = "idle" /\ xPortsActive'[server'.board] = server'.port
    BY <1>1, <1>3, <1>12
  <2> QED
    BY <2>1, <2>2, <2>3 DEF ServerInv
<1>14. CacheInv'
  <2>1. ASSUME NEW c \in Boards, NEW q \in Ports, cache'[q].value = c
        PROVE  task'[c] # "none" /\ xPortsActive'[c] = q
    <3>1. CASE q \in T
      BY <1>3, <1>5, <1>12, <2>1, <3>1, NotABoard DEF Ports
    <3>2. CASE q \notin T
      <4>1. cache[q].value = c
        BY <1>3, <2>1, <3>2 DEF Ports
      <4>2. task[c] # "none" /\ xPortsActive[c] = q
        BY <4>1 DEF ManagerInv, CacheInv, Runs
      <4>3. c \notin out
        BY <1>4, <1>8, <3>2, <4>2
      <4>4. c # b
        BY <1>4, <4>2, <4>3, NotABoard
      <4> QED
        BY <1>12, <4>2, <4>3, <4>4
    <3> QED
      BY <3>1, <3>2
  <2>2. ASSUME ~erased, NEW c \in Boards, NEW q \in Ports, task'[c] # "none", xPortsActive'[c] = q
        PROVE  cache'[q].value = c
    <3>1. CASE c = b
      BY <1>3, <1>5, <1>6, <1>12, <2>2, <3>1 DEF Ports
    <3>2. CASE c # b
      <4>1. c \notin out /\ xPortsActive[c] = q /\ task[c] # "none"
        BY <1>12, <2>2, <3>2
      <4>2. cache[q].value = c
        BY <1>1, <2>2, <4>1 DEF ManagerInv, CacheInv, Runs
      <4>3. q # p
        BY <1>4, <4>1
      <4>4. q \notin Freed(out)
        BY <1>4, <4>1, NotABoard DEF ManagerInv, ServerInv
      <4> QED
        BY <1>3, <1>7, <4>2, <4>3, <4>4 DEF Ports
    <3> QED
      BY <3>1, <3>2
  <2> QED
    BY <1>1, <2>1, <2>2 DEF CacheInv, Runs
<1> QED
  BY <1>9, <1>10, <1>13, <1>14

LEMMA FinishKeeps ==
    ASSUME ManagerInv, FinishActivate
    PROVE  BoardsType' /\ ServerInv' /\ CacheInv' /\ BufferInv' /\ FlashInv'
<1> DEFINE b == server.board
           p == server.port
<1>1. /\ server # Serving /\ b \in Boards /\ p \in Ports
      /\ xPortsActive[b] = p /\ p # None
  BY NotABoard DEF FinishActivate, ManagerInv, BoardsType, ServerInv
<1>2. /\ task' = [task EXCEPT ![b] = "ready"] /\ server' = Serving
      /\ xPortsActive' = xPortsActive /\ xI2C1_Mutex' = xI2C1_Mutex /\ erased' = erased
      /\ SetConfig([q \in {p} |-> b])
  BY DEF FinishActivate
<1>3. /\ cache'[p].value = b
      /\ \A t \in Tags : t # p => cache'[t].value = cache[t].value
      /\ write' = write /\ flash' = flash /\ write.step = "idle"
  <2> DEFINE values == [q \in {p} |-> b]
  <2>1. DOMAIN values = {p} /\ values[p] = b
    OBVIOUS
  <2>2. SetConfig(values)
    BY <1>2
  <2> HIDE DEF values
  <2> QED
    BY <1>1, <2>1, <2>2, SetValue DEF Ports
<1>4. /\ task'[b] = "ready" /\ \A c \in Boards : c # b => task'[c] = task[c]
      /\ task' \in [Boards -> {"none", "ready", "bus"}]
  BY <1>1, <1>2 DEF ManagerInv, BoardsType
<1>5. BufferInv' /\ FlashInv'
  BY <1>3, IdleKeeps
<1>6. BoardsType'
  BY <1>2, <1>4 DEF ManagerInv, BoardsType
<1>7. ServerInv'
  <2>1. \A c \in Boards : c # b => (task[c] # "none" <=> xPortsActive[c] # None)
    BY DEF ManagerInv, ServerInv
  <2>2. \A c \in Boards : task'[c] # "none" <=> (xPortsActive'[c] # None /\ c # server'.board)
    BY <1>1, <1>2, <1>4, <2>1, NotABoard
  <2>3. \A c, d \in Boards : xPortsActive'[c] = xPortsActive'[d] /\ xPortsActive'[c] # None => c = d
    BY <1>2 DEF ManagerInv, ServerInv
  <2> QED
    BY <1>2, <2>2, <2>3 DEF ServerInv
<1>8. CacheInv'
  <2>1. ASSUME NEW c \in Boards, NEW q \in Ports, cache'[q].value = c
        PROVE  task'[c] # "none" /\ xPortsActive'[c] = q
    BY <1>1, <1>2, <1>3, <1>4, <2>1 DEF ManagerInv, CacheInv, Runs, Ports
  <2>2. ASSUME ~erased, NEW c \in Boards, NEW q \in Ports, task'[c] # "none", xPortsActive'[c] = q
        PROVE  cache'[q].value = c
    <3>1. CASE c = b
      BY <1>1, <1>2, <1>3, <2>2, <3>1
    <3>2. CASE c # b
      <4>1. q # p
        BY <1>1, <1>2, <2>2, <3>2 DEF ManagerInv, ServerInv
      <4> QED
        BY <1>2, <1>3, <1>4, <2>2, <3>2, <4>1 DEF ManagerInv, CacheInv, Runs, Ports
    <3> QED
      BY <3>1, <3>2
  <2> QED
    BY <1>2, <2>1, <2>2 DEF CacheInv, Runs
<1> QED
  BY <1>5, <1>6, <1>7, <1>8

LEMMA DeactivateKeeps ==
    ASSUME ManagerInv, NEW p \in Ports, Deactivate(p)
    PROVE  BoardsType' /\ ServerInv' /\ CacheInv' /\ BufferInv' /\ FlashInv'
<1>1. /\ server = Serving /\ server' = server /\ erased' = erased
      /\ xPortsActive' = [c \in Boards |-> IF c \in Active(p) THEN None ELSE xPortsActive[c]]
      /\ task' = [c \in Boards |-> IF c \in Active(p) THEN "none" ELSE task[c]]
      /\ xI2C1_Mutex' = IF xI2C1_Mutex \in Active(p) THEN "dead" ELSE xI2C1_Mutex
      /\ SetConfig([q \in {p} |-> NoValue])
  BY DEF Deactivate, BetweenRequests, Deinit
<1>2. /\ cache'[p].value = NoValue
      /\ \A t \in Tags : t # p => cache'[t].value = cache[t].value
      /\ write' = write /\ flash' = flash /\ write.step = "idle"
  <2> DEFINE values == [q \in {p} |-> NoValue]
  <2>1. DOMAIN values = {p} /\ values[p] = NoValue
    OBVIOUS
  <2>2. SetConfig(values)
    BY <1>1
  <2> HIDE DEF values
  <2> QED
    BY <2>1, <2>2, SetValue DEF Ports
<1>3. /\ \A c \in Boards : xPortsActive[c] = p => xPortsActive'[c] = None /\ task'[c] = "none"
      /\ \A c \in Boards : xPortsActive[c] # p => xPortsActive'[c] = xPortsActive[c] /\ task'[c] = task[c]
  BY <1>1 DEF Active
<1>4. BufferInv' /\ FlashInv'
  BY <1>2, IdleKeeps
<1>5. BoardsType'
  BY <1>1 DEF ManagerInv, BoardsType
<1>6. ServerInv'
  BY <1>1, <1>3, NotABoard DEF ManagerInv, ServerInv
<1>7. CacheInv'
  <2>1. ASSUME NEW c \in Boards, NEW q \in Ports, cache'[q].value = c
        PROVE  task'[c] # "none" /\ xPortsActive'[c] = q
    BY <1>2, <1>3, <2>1, NotABoard DEF ManagerInv, CacheInv, Runs, Ports
  <2>2. ASSUME ~erased, NEW c \in Boards, NEW q \in Ports, task'[c] # "none", xPortsActive'[c] = q
        PROVE  cache'[q].value = c
    BY <1>2, <1>3, <2>2, NotABoard DEF ManagerInv, CacheInv, Runs, Ports
  <2> QED
    BY <1>1, <2>1, <2>2 DEF CacheInv, Runs
<1> QED
  BY <1>4, <1>5, <1>6, <1>7

LEMMA WriteStepKeeps ==
    ASSUME ManagerInv, Write
    PROVE  BoardsType' /\ ServerInv' /\ CacheInv' /\ BufferInv' /\ FlashInv'
<1>1. /\ server = Serving /\ server' = server /\ erased' = erased /\ xPortsActive' = xPortsActive
      /\ task' = task /\ xI2C1_Mutex' = xI2C1_Mutex
      /\ write.step = "idle" /\ flash' = flash
      /\ cache' = IF Room THEN cache ELSE NullCache
      /\ write' = [step |-> IF Room THEN "program" ELSE "erase", then |-> "program",
                   destination |-> IF Room THEN pxConfigInFlash + 1 ELSE 1,
                   buffer |-> Buffered]
  BY DEF Write, BetweenRequests, boardVars, WriteConfig
<1>2. BoardsType'
  BY <1>1 DEF ManagerInv, BoardsType
<1>3. ServerInv'
  BY <1>1 DEF ManagerInv, ServerInv
<1>4. write'.step \in {"program", "erase"} /\ write'.then = "program"
  BY <1>1
<1>5. \A t \in Tags : write'.buffer[t] = cache[t].value
  BY <1>1 DEF Buffered
<1>6. \A t \in Tags : cache'[t].value = cache[t].value \/ cache'[t].value = NoValue
  BY <1>1 DEF NullCache, Null
<1>7. CacheInv'
  BY <1>1, <1>4, <1>6, NotABoard DEF ManagerInv, CacheInv, Runs, Ports
<1>8. BufferInv'
  BY <1>1, <1>4, <1>5 DEF ManagerInv, CacheInv, BufferInv, Runs, Ports
<1>9. FlashInv'
  BY <1>1, <1>4 DEF ManagerInv, FlashInv, Unique
<1> QED
  BY <1>2, <1>3, <1>7, <1>8, <1>9

LEMMA EraseStepKeeps ==
    ASSUME ManagerInv, Erase
    PROVE  BoardsType' /\ ServerInv' /\ CacheInv' /\ BufferInv' /\ FlashInv'
<1>1. /\ server = Serving /\ server' = server /\ erased' = TRUE /\ xPortsActive' = xPortsActive
      /\ task' = task /\ xI2C1_Mutex' = xI2C1_Mutex
      /\ flash' = flash /\ cache' = NullCache
      /\ write'.step = "erase" /\ write'.then = "idle"
  BY DEF Erase, BetweenRequests, EraseConfig, Idle
<1>2. \A t \in Tags : cache'[t].value = NoValue
  BY <1>1 DEF NullCache, Null
<1>3. CacheInv'
  BY <1>1, <1>2, NotABoard DEF CacheInv, Ports
<1>4. BufferInv' /\ FlashInv' /\ ServerInv' /\ BoardsType'
  BY <1>1 DEF ManagerInv, BufferInv, FlashInv, Unique, ServerInv, BoardsType
<1> QED
  BY <1>3, <1>4

LEMMA GarbledIsUnique ==
    ASSUME NEW l \in Lists, Unique(l), NEW bad, NEW page, page = Garbled(l, bad)
    PROVE  Unique(page.list) /\ \A t \in Tags : page.list[t] \in {l[t], Garbage}
<1>1. page.list = [t \in Tags |-> IF t \in bad /\ l[t] # NoValue THEN Garbage ELSE l[t]]
  BY DEF Garbled, Config
<1>2. \A t \in Tags : page.list[t] \in {l[t], Garbage}
  BY <1>1
<1>3. \A t \in Tags : page.list[t] \in Boards => page.list[t] = l[t]
  BY <1>2, NotABoard
<1> QED
  BY <1>2, <1>3 DEF Unique, Ports

LEMMA SpoiledIsUnique ==
    ASSUME NEW l \in Lists, Unique(l), NEW page \in Spoiled(l) \cup {Config(l)},
           page.kind = "config"
    PROVE  Unique(page.list) /\ \A t \in Tags : page.list[t] \in {l[t], Garbage}
<1>1. CASE page = Config(l)
  BY <1>1 DEF Config
<1>2. CASE page \in {Garbled(l, bad) : bad \in Losses}
  BY <1>2, GarbledIsUnique
<1>3. page \notin {Junk, Torn}
  BY DEF Junk, Torn
<1> QED
  BY <1>1, <1>2, <1>3 DEF Spoiled

LEMMA BufferIsUnique ==
    ASSUME ManagerInv, write.step = "program"
    PROVE  write.buffer \in Lists /\ Unique(write.buffer) /\ write.then = "program"
<1>1. write.buffer \in Lists /\ write.then = "program"
  BY DEF ManagerInv, StoreTypeOK, BufferInv
<1>2. \A b \in Boards, p \in Ports : write.buffer[p] = b => xPortsActive[b] = p
  BY <1>1 DEF ManagerInv, BufferInv, Runs
<1> QED
  BY <1>1, <1>2 DEF Unique

LEMMA StoreStepKeeps ==
    ASSUME ManagerInv, Store
    PROVE  BoardsType' /\ ServerInv' /\ CacheInv' /\ BufferInv' /\ FlashInv'
<1>1. /\ server' = server /\ xPortsActive' = xPortsActive /\ task' = task
      /\ xI2C1_Mutex' = xI2C1_Mutex
      /\ erased' = (erased \/ (write.step = "verify" /\ Failed))
      /\ erased \in BOOLEAN
  BY DEF Store, ManagerInv, BoardsType
<1>2. write.step # "idle" /\ server = Serving
  BY DEF Store, EraseSector, ProgramPage, VerifyWrite, ManagerInv, ServerInv
<1>3. BoardsType' /\ ServerInv'
  BY <1>1, <1>2 DEF ManagerInv, BoardsType, ServerInv
<1>4. CASE EraseSector
  <2>1. /\ cache' = cache /\ flash' = [i \in Page |-> Blank] /\ write.step = "erase"
        /\ write'.step = write.then /\ write'.then = write.then /\ write'.buffer = write.buffer
        /\ write.then \in {"idle", "program"} /\ erased' = erased
    BY <1>1, <1>4 DEF EraseSector, ManagerInv, StoreTypeOK
  <2>2. CacheInv'
    BY <1>1, <2>1 DEF ManagerInv, CacheInv, BufferInv, Runs
  <2>3. BufferInv'
    BY <1>1, <2>1 DEF ManagerInv, BufferInv, Runs
  <2>4. FlashInv'
    <3>1. \A i \in Page : flash'[i].kind # "config"
      BY <2>1 DEF Blank
    <3> QED
      BY <2>1, <3>1 DEF FlashInv
  <2> QED
    BY <1>3, <2>2, <2>3, <2>4
<1>5. CASE ProgramPage
  <2>1. /\ cache' = cache /\ write.step = "program" /\ write'.step = "verify"
        /\ write'.then = write.then /\ write'.buffer = write.buffer
        /\ write'.destination = write.destination /\ erased' = erased
    BY <1>1, <1>5 DEF ProgramPage, ManagerInv, StoreTypeOK
  <2>2. PICK page \in Programmed(flash[write.destination], write.buffer) :
          flash' = [flash EXCEPT ![write.destination] = page]
    BY <1>5 DEF ProgramPage
  <2>3. CacheInv' /\ BufferInv'
    BY <1>1, <2>1 DEF ManagerInv, CacheInv, BufferInv, Runs
  <2>4. FlashInv'
    <3>1. page.kind = "config" =>
            Unique(page.list) /\ \A t \in Tags : page.list[t] \in {write.buffer[t], Garbage}
      BY <2>1, <2>2, BufferIsUnique, SpoiledIsUnique DEF Programmed
    <3>2. /\ flash'[write.destination] = page
          /\ \A i \in Page : i # write.destination => flash'[i] = flash[i]
      BY <2>2 DEF ManagerInv, StoreTypeOK
    <3>3. \A i \in Page : flash'[i].kind = "config" => Unique(flash'[i].list)
      BY <3>1, <3>2 DEF ManagerInv, FlashInv
    <3> QED
      BY <2>1, <3>1, <3>2, <3>3 DEF FlashInv, Unique
  <2> QED
    BY <1>3, <2>3, <2>4
<1>6. CASE VerifyWrite
  <2> DEFINE d == write.destination
  <2>1. /\ write.step = "verify" /\ write'.step = "idle" /\ flash' = flash
        /\ write.then = "program" /\ d \in Page
    BY <1>6 DEF VerifyWrite, Idle, ManagerInv, BufferInv, StoreTypeOK
  <2>2. BufferInv' /\ FlashInv'
    BY <2>1 DEF ManagerInv, BufferInv, FlashInv, Unique
  <2>3. CASE Verified(flash, d)
    <3>1. cache' = CacheOf(flash[d].list)
      BY <1>6, <2>3 DEF VerifyWrite
    <3>2. \A t \in Tags : cache'[t].value = flash[d].list[t]
      BY <3>1 DEF CacheOf, Null, InFlash
    <3>3. \A t \in Tags : flash[d].list[t] \in {write.buffer[t], Garbage}
      BY <2>1, <2>3 DEF ManagerInv, FlashInv, Verified
    <3>4. \A c \in Boards, q \in Ports : cache'[q].value = c => Runs(c, q)
      BY <2>1, <3>2, <3>3, NotABoard DEF ManagerInv, BufferInv, Ports
    <3>5. ~erased' => ~erased /\ flash[d].list = write.buffer
      BY <1>1, <2>1 DEF Failed
    <3>6. ~erased' => \A c \in Boards, q \in Ports : Runs(c, q) => cache'[q].value = c
      BY <2>1, <3>2, <3>5 DEF ManagerInv, BufferInv, Ports
    <3> QED
      BY <1>1, <1>3, <2>2, <3>4, <3>6 DEF CacheInv, Runs
  <2>4. CASE ~Verified(flash, d)
    <3>1. cache' = cache /\ erased'
      BY <1>1, <1>6, <2>1, <2>4 DEF VerifyWrite, Failed
    <3> QED
      BY <1>1, <1>3, <2>2, <3>1 DEF ManagerInv, CacheInv, Runs
  <2> QED
    BY <2>3, <2>4
<1> QED
  BY <1>4, <1>5, <1>6 DEF Store

LEMMA MutexKeeps ==
    ASSUME ManagerInv, NEW b \in Boards, TakeMutex(b) \/ GiveMutex(b)
    PROVE  BoardsType' /\ ServerInv' /\ CacheInv' /\ BufferInv' /\ FlashInv'
<1>1. /\ server' = server /\ erased' = erased /\ xPortsActive' = xPortsActive
      /\ write' = write /\ flash' = flash /\ cache' = cache
      /\ xI2C1_Mutex' \in {"free", "dead"} \cup Boards
      /\ task' \in [Boards -> {"none", "ready", "bus"}]
      /\ \A c \in Boards : task'[c] # "none" <=> task[c] # "none"
  BY DEF TakeMutex, GiveMutex, storeVars, ManagerInv, BoardsType
<1>2. BoardsType'
  BY <1>1 DEF ManagerInv, BoardsType
<1>3. ServerInv'
  BY <1>1 DEF ManagerInv, ServerInv
<1>4. CacheInv' /\ BufferInv'
  BY <1>1 DEF ManagerInv, CacheInv, BufferInv, Runs
<1>5. FlashInv'
  BY <1>1 DEF ManagerInv, FlashInv, Unique
<1> QED
  BY <1>2, <1>3, <1>4, <1>5

(***************************************************************************)
(* Start-up: what survives of the flash has each clickboard on one port at *)
(* most, and the manager runs just that.                                   *)
(***************************************************************************)
LEMMA InterruptedIsUnique ==
    ASSUME ManagerInv, NEW f \in Interrupted
    PROVE  \A i \in Page : f[i].kind = "config" => Unique(f[i].list)
<1>0. \A i \in Page : flash[i].kind = "config" => Unique(flash[i].list)
  BY DEF ManagerInv, FlashInv
<1>1. CASE write.step = "erase"
  <2>1. PICK how \in [UsedPage -> {"config", "torn", "junk", "erased"}], bad \in Losses :
          f = [i \in Page |-> IF i \in UsedPage THEN Left(flash[i], how[i], bad) ELSE Blank]
    BY <1>1 DEF Interrupted, HalfErased
  <2>2. ASSUME NEW i \in Page, f[i].kind = "config" PROVE Unique(f[i].list)
    <3>1. f[i] = Garbled(flash[i].list, bad) /\ flash[i].kind = "config"
      BY <2>1, <2>2 DEF Left, Torn, Junk, Blank
    <3>2. flash[i].list \in Lists
      BY DEF ManagerInv, StoreTypeOK, Content
    <3> QED
      BY <1>0, <3>1, <3>2, GarbledIsUnique
  <2> QED
    BY <2>2
<1>2. CASE write.step = "program"
  <2>1. PICK page \in {flash[write.destination]} \cup Spoiled(write.buffer) :
          f = [flash EXCEPT ![write.destination] = page]
    BY <1>2 DEF Interrupted
  <2>2. write.destination \in Page /\ flash \in [Page -> Content]
    BY DEF ManagerInv, StoreTypeOK
  <2>3. page.kind = "config" => Unique(page.list)
    BY <1>0, <1>2, <2>1, <2>2, BufferIsUnique, SpoiledIsUnique
  <2>4. \A i \in Page : f[i] = IF i = write.destination THEN page ELSE flash[i]
    BY <2>1, <2>2
  <2> QED
    BY <1>0, <2>3, <2>4
<1>3. CASE write.step \notin {"erase", "program"}
  BY <1>0, <1>3 DEF Interrupted
<1> QED
  BY <1>1, <1>2, <1>3

LEMMA RestartBoardsKeeps ==
    ASSUME ManagerInv, RestartBoards
    PROVE  BoardsType' /\ ServerInv' /\ CacheInv' /\ BufferInv' /\ FlashInv'
<1>1. PICK f \in Interrupted : flash' = f /\ ReadConfig(f)
  BY DEF RestartBoards, Restart
<1> DEFINE i == FindConfig(f)
           list == [t \in Tags |-> cache'[t].value]
<1>2. /\ write'.step = "idle" /\ server' = Serving /\ erased' = FALSE /\ xI2C1_Mutex' = "free"
      /\ xPortsActive' = [b \in Boards |-> PortInConfig(list, b)]
      /\ task' = [b \in Boards |-> IF xPortsActive'[b] = None THEN "none" ELSE "ready"]
  BY DEF RestartBoards, Restart, Idle
<1>3. \A j \in Page : f[j].kind = "config" => Unique(f[j].list)
  BY InterruptedIsUnique
<1>4. BufferInv' /\ FlashInv'
  BY <1>1, <1>2, <1>3 DEF BufferInv, FlashInv, Unique
<1>5. Unique(list)
  <2>1. CASE i = 0
    <3>1. \A t \in Tags : list[t] = NoValue
      BY <1>1, <2>1 DEF ReadConfig, NullCache, Null
    <3> QED
      BY <3>1, NotABoard DEF Unique, Ports
  <2>2. CASE i # 0
    <3>1. i \in Page /\ f[i].kind = "config"
      BY <2>2, FindsSound DEF Verified
    <3>2. \A t \in Tags : list[t] = f[i].list[t]
      BY <1>1, <2>2 DEF ReadConfig, CacheOf, Null, InFlash
    <3> QED
      BY <1>3, <3>1, <3>2 DEF Unique, Ports
  <2> QED
    BY <2>1, <2>2
<1>6. \A t \in Tags : list[t] = cache'[t].value
  OBVIOUS
<1> HIDE DEF list
<1>7. ASSUME NEW b \in Boards
      PROVE  /\ xPortsActive'[b] \in Ports \cup {None}
             /\ \A p \in Ports : xPortsActive'[b] = p <=> list[p] = b
  <2>1. xPortsActive'[b] = PortInConfig(list, b)
    BY <1>2
  <2>2. CASE \E p \in Ports : list[p] = b
    <3>1. PortInConfig(list, b) = CHOOSE p \in Ports : list[p] = b
      BY <2>2 DEF PortInConfig
    <3>2. PortInConfig(list, b) \in Ports /\ list[PortInConfig(list, b)] = b
      BY <2>2, <3>1
    <3>3. \A p \in Ports : list[p] = b => p = PortInConfig(list, b)
      BY <1>5, <3>2 DEF Unique
    <3> QED
      BY <2>1, <3>2, <3>3
  <2>3. CASE ~\E p \in Ports : list[p] = b
    <3>1. PortInConfig(list, b) = None
      BY <2>3 DEF PortInConfig
    <3> QED
      BY <2>1, <2>3, <3>1, NotABoard
  <2> QED
    BY <2>2, <2>3
<1>8. \A b \in Boards : task'[b] # "none" <=> xPortsActive'[b] # None
  BY <1>2
<1>9. BoardsType'
  BY <1>2, <1>7 DEF BoardsType
<1>10. ServerInv'
  <2>1. \A b, c \in Boards : xPortsActive'[b] = xPortsActive'[c] /\ xPortsActive'[b] # None => b = c
    BY <1>7
  <2> QED
    BY <1>2, <1>8, <2>1, NotABoard DEF ServerInv
<1>11. CacheInv'
  <2>1. \A b \in Boards, p \in Ports :
          cache'[p].value = b <=> task'[b] # "none" /\ xPortsActive'[b] = p
    BY <1>6, <1>7, <1>8, NotABoard DEF Ports
  <2> QED
    BY <2>1 DEF CacheInv, Runs
<1> QED
  BY <1>4, <1>9, <1>10, <1>11

-----------------------------------------------------------------------------
LEMMA ManagerInit == Init => IInv /\ ManagerInv
<1> SUFFICES ASSUME Init PROVE IInv /\ ManagerInv
  OBVIOUS
<1>1. IInv /\ StoreTypeOK
  BY InitEstablishes DEF Init, IInv
<1>2. write.step = "idle" /\ flash = [i \in Page |-> Blank] /\ cache = NullCache
  BY DEF Init, InitStore, Idle
<1>3. /\ \A b \in Boards : xPortsActive[b] = None /\ task[b] = "none"
      /\ server = Serving
  BY DEF Init
<1>4. BoardsType
  BY DEF Init, BoardsType
<1>5. ServerInv
  BY <1>3 DEF ServerInv
<1>6. \A t \in Tags : cache[t].value = NoValue
  BY <1>2 DEF NullCache, Null
<1>7. CacheInv
  BY <1>3, <1>6, NotABoard DEF CacheInv, Runs, Ports
<1>8. BufferInv
  BY <1>2 DEF BufferInv
<1>9. FlashInv
  <2>1. \A i \in Page : flash[i].kind # "config"
    BY <1>2 DEF Blank
  <2> QED
    BY <1>2, <2>1 DEF FlashInv
<1> QED
  BY <1>1, <1>4, <1>5, <1>7, <1>8, <1>9 DEF ManagerInv

LEMMA ManagerStep == IInv /\ ManagerInv /\ [Next]_vars => (IInv /\ ManagerInv)'
<1> SUFFICES ASSUME IInv, ManagerInv, [Next]_vars PROVE IInv' /\ ManagerInv'
  OBVIOUS
<1>1. IInv' /\ StoreTypeOK'
  <2>1. [NextStore]_storeVars
    BY StepIsStoreStep DEF ManagerInv
  <2> QED
    BY <2>1, StepKeeps DEF IInv
<1> SUFFICES BoardsType' /\ ServerInv' /\ CacheInv' /\ BufferInv' /\ FlashInv'
  BY <1>1 DEF ManagerInv
<1>2. CASE \E b \in Boards, p \in Ports : Activate(b, p)
  BY <1>2, ActivateKeeps
<1>3. CASE FinishActivate
  BY <1>3, FinishKeeps
<1>4. CASE \E p \in Ports : Deactivate(p)
  BY <1>4, DeactivateKeeps
<1>5. CASE Write
  BY <1>5, WriteStepKeeps
<1>6. CASE Erase
  BY <1>6, EraseStepKeeps
<1>7. CASE Store
  BY <1>7, StoreStepKeeps
<1>8. CASE \E b \in Boards : TakeMutex(b) \/ GiveMutex(b)
  BY <1>8, MutexKeeps
<1>9. CASE RestartBoards
  BY <1>9, RestartBoardsKeeps
<1>10. CASE UNCHANGED vars
  BY <1>10 DEF vars, storeVars, boardVars, ManagerInv, BoardsType, ServerInv, CacheInv, Runs,
     BufferInv, FlashInv, Unique
<1> QED
  BY <1>2, <1>3, <1>4, <1>5, <1>6, <1>7, <1>8, <1>9, <1>10 DEF Next

THEOREM ManagerInvariant == Spec => [](IInv /\ ManagerInv)
<1> QED
  BY ManagerInit, ManagerStep, PTL DEF Spec

(***************************************************************************)
(* The manager's steps are the store's: what is proved of the store holds  *)
(* of the composition.                                                     *)
(***************************************************************************)
THEOREM ManagerImplementsStore == Spec => StoreSpec
<1>1. Init => InitStore
  BY DEF Init
<1>2. IInv /\ ManagerInv /\ [Next]_vars => [NextStore]_storeVars
  BY StepIsStoreStep DEF ManagerInv
<1> QED
  BY <1>1, <1>2, ManagerInvariant, PTL DEF Spec, StoreSpec

(***************************************************************************)
(* Between requests, and wherever restarts and cut writes came, what runs  *)
(* is what the store would save, each clickboard on its port.              *)
(***************************************************************************)
THEOREM RunningClickboardsAreStored == Spec => []RunningIsStored
<1>1. ManagerInv => RunningIsStored
  BY DEF ManagerInv, CacheInv, Runs, RunningIsStored, BetweenRequests
<1> QED
  BY <1>1, ManagerInvariant, PTL

THEOREM ManagerTypeCorrect == Spec => []TypeOK
<1>1. ManagerInv => TypeOK
  BY DEF ManagerInv, BoardsType, TypeOK
<1> QED
  BY <1>1, ManagerInvariant, PTL
=============================================================================
