------------------------------- MODULE SaveConfig -------------------------------
(***************************************************************************)
(* The configuration store (APP/SaveConfig/save_config.c): a list of       *)
(* tagged values cached in RAM, and a flash sector to which whole          *)
(* configurations are appended until it is full and has to be erased.  A   *)
(* restart can come between any two steps, and in the middle of an erase   *)
(* or of the programming of a page.                                        *)
(*                                                                         *)
(* The values the firmware stores take 24 bytes with their header, so that *)
(* a configuration is one page of 256 bytes: prvWriteConfig fills its      *)
(* buffer once and prvWriteToFlash is called once.  A page stands for the  *)
(* Config_t that would be there.  Failed allocations do not return         *)
(* (vApplicationMallocFailedHook), and end the behaviour.                  *)
(***************************************************************************)
EXTENDS Naturals

CONSTANTS
    Tags,           \* the tags of LIST_OF_CONFIG_TAGS that are used
    Values,         \* what is stored under them
    NoValue,        \* no TLV, or one of length 0
    Garbage,        \* a value that a failure of the supply changed
    Losses,         \* the sets of tags whose values such a failure may change
    MaxCuts,        \* bound: how often the supply fails in the middle of an erase or write
    NPages          \* pages in the sector: CONFIG_FLASH_AREA_SIZE / 256

ASSUME StoreAssumption ==
    /\ NPages \in Nat /\ NPages >= 2 /\ MaxCuts \in Nat
    /\ NoValue \notin Values /\ Garbage \notin Values /\ Garbage # NoValue

VARIABLES
    flash,              \* the pages of the sector
    cache,              \* ppxConfigCacheTLVList
    pxConfigInFlash,    \* the page of the current configuration, or 0
    write,              \* xWriteConfig and vEraseConfig: where they are
    cuts                \* how often the supply has failed there

storeVars == <<flash, cache, pxConfigInFlash, write, cuts>>

Page == 1 .. NPages
Stored == Values \cup {NoValue, Garbage}
Lists == [Tags -> Stored]
EmptyList == [t \in Tags |-> NoValue]

\* What is on a page: nothing, bits without the signature, the signature in
\* front of a list that does not verify, or a configuration.
Blank == [kind |-> "blank", list |-> EmptyList]
Junk == [kind |-> "junk", list |-> EmptyList]
Torn == [kind |-> "torn", list |-> EmptyList]
Config(list) == [kind |-> "config", list |-> list]
Content == [kind : {"blank", "junk", "torn", "config"}, list : Lists]

Null == [at |-> "null", value |-> NoValue]
InRAM(v) == [at |-> "ram", value |-> v]
InFlash(v) == [at |-> "flash", value |-> v]
Entry == [at : {"null", "ram", "flash"}, value : Stored]

Idle == [step |-> "idle", then |-> "idle", destination |-> 1, buffer |-> EmptyList]

-----------------------------------------------------------------------------
(* Reading: xReadConfig *)

Signed(f, i) == f[i].kind \in {"torn", "config"}

\* prvVerifyConfig.  A configuration on the last page would end at the end of
\* the sector, which the area check refuses.
Verified(f, i) == f[i].kind = "config" /\ i < NPages

\* prvFindConfig goes by the signatures, and then verifies the last one only.
IsLastSigned(f, i) ==
    /\ \A j \in 1 .. i : Signed(f, j)
    /\ i = NPages \/ ~Signed(f, i + 1)

\* Mutant: the first configuration, where the last one is meant.
MutFindConfig(f) == IF Verified(f, 1) THEN 1 ELSE 0

FindConfig(f) ==
    LET found == {i \in Page : Verified(f, i) /\ IsLastSigned(f, i)}
    IN  IF found = {} THEN 0 ELSE CHOOSE i \in found : TRUE

\* prvUpdateCache, after prvCleanCache.
CacheOf(list) == [t \in Tags |-> IF list[t] = NoValue THEN Null ELSE InFlash(list[t])]
NullCache == [t \in Tags |-> Null]

\* xReadConfig at start-up: the cache is empty when there is no configuration.
ReadConfig(f) ==
    LET i == FindConfig(f) IN
    /\ pxConfigInFlash' = i
    /\ cache' = IF i = 0 THEN NullCache ELSE CacheOf(f[i].list)

-----------------------------------------------------------------------------
(* Setting, erasing and writing *)

\* pvSetConfig, for all tags it is called for before anything else can happen.
\* NoValue is a TLV of length 0, which the next write leaves out.
SetConfig(values) ==
    /\ write.step = "idle"
    /\ cache' = [t \in Tags |-> IF t \in DOMAIN values THEN InRAM(values[t]) ELSE cache[t]]
    /\ UNCHANGED <<flash, pxConfigInFlash, write, cuts>>

\* Mutant: the cache keeps its pointers into the flash.
MutEraseConfig ==
    /\ write.step = "idle"
    /\ pxConfigInFlash' = 0
    /\ write' = [Idle EXCEPT !.step = "erase"]
    /\ UNCHANGED <<flash, cache, cuts>>

\* vEraseConfig forgets everything before it erases.
EraseConfig ==
    /\ write.step = "idle"
    /\ cache' = NullCache
    /\ pxConfigInFlash' = 0
    /\ write' = [Idle EXCEPT !.step = "erase"]
    /\ UNCHANGED <<flash, cuts>>

Changed == \E t \in Tags : cache[t].at = "ram"
\* Mutant: `<= CONFIG_FLASH_AREA_END', where prvVerifyConfig has `>='.
MutRoom == pxConfigInFlash # 0 /\ pxConfigInFlash + 1 <= NPages
Room == pxConfigInFlash # 0 /\ pxConfigInFlash + 1 < NPages
\* Mutant: only what has changed is written.
MutBuffered == [t \in Tags |-> IF cache[t].at = "ram" THEN cache[t].value ELSE NoValue]
Buffered == [t \in Tags |-> cache[t].value]

\* xWriteConfig and prvWriteConfig, up to the flash.  With nothing changed
\* they do nothing.
WriteConfig ==
    /\ write.step = "idle"
    /\ Changed
    /\ write' = [step |-> IF Room THEN "program" ELSE "erase",
                 then |-> "program",
                 destination |-> IF Room THEN pxConfigInFlash + 1 ELSE 1,
                 buffer |-> Buffered]
    /\ cache' = IF Room THEN cache ELSE NullCache
    /\ pxConfigInFlash' = IF Room THEN pxConfigInFlash ELSE 0
    /\ UNCHANGED <<flash, cuts>>

EraseSector ==
    /\ write.step = "erase"
    /\ flash' = [i \in Page |-> Blank]
    /\ write' = [write EXCEPT !.step = write.then]
    /\ UNCHANGED <<cache, pxConfigInFlash, cuts>>

\* The configuration with some of its values changed.
Garbled(list, bad) ==
    Config([t \in Tags |-> IF t \in bad /\ list[t] # NoValue THEN Garbage ELSE list[t]])

\* What may be on a page that was programmed partly, or twice: the signature
\* or not, a list that ends where it should or not, values that are right or not.
Spoiled(list) == {Junk, Torn} \cup {Garbled(list, bad) : bad \in Losses}

Programmed(page, list) == IF page = Blank THEN {Config(list)} ELSE Spoiled(list)

\* prvWriteToFlash.
ProgramPage ==
    /\ write.step = "program"
    /\ \E page \in Programmed(flash[write.destination], write.buffer) :
        flash' = [flash EXCEPT ![write.destination] = page]
    /\ write' = [write EXCEPT !.step = "verify"]
    /\ UNCHANGED <<cache, pxConfigInFlash, cuts>>

\* The end of xWriteConfig.  A write that does not verify leaves cache and
\* pxConfigInFlash as they are.
VerifyWrite ==
    /\ write.step = "verify"
    /\ IF Verified(flash, write.destination)
       THEN /\ pxConfigInFlash' = write.destination
            /\ cache' = CacheOf(flash[write.destination].list)
       ELSE UNCHANGED <<pxConfigInFlash, cache>>
    /\ write' = Idle
    /\ UNCHANGED <<flash, cuts>>

\* What a reset or a failing supply leaves on a page that is being erased: as
\* bits only become ones, a signature does not appear where there was none.
Left(page, how, bad) ==
    IF how = "config" /\ page.kind = "config" THEN Garbled(page.list, bad)
    ELSE IF how \in {"config", "torn"} /\ page.kind \in {"torn", "config"} THEN Torn
    ELSE IF how # "erased" THEN Junk
    ELSE Blank

UsedPage == {i \in Page : flash[i] # Blank}

\* Of the pages that still verify only the last one is read, so that it does
\* for all to have changed in the same values.
HalfErased ==
    {[i \in Page |-> IF i \in UsedPage THEN Left(flash[i], how[i], bad) ELSE Blank] :
        how \in [UsedPage -> {"config", "torn", "junk", "erased"}], bad \in Losses}

Interrupted ==
    IF write.step = "erase" THEN HalfErased
    ELSE IF write.step = "program"
    THEN {[flash EXCEPT ![write.destination] = page] :
            page \in {flash[write.destination]} \cup Spoiled(write.buffer)}
    ELSE {flash}

\* main calls xReadConfig before anything else.
Restart ==
    /\ cuts' = IF write.step \in {"erase", "program"} THEN cuts + 1 ELSE cuts
    /\ cuts' <= MaxCuts
    /\ \E f \in Interrupted : flash' = f /\ ReadConfig(f)
    /\ write' = Idle

InitStore ==
    /\ flash = [i \in Page |-> Blank]
    /\ cache = NullCache
    /\ pxConfigInFlash = 0
    /\ write = Idle
    /\ cuts = 0

NextStore ==
    \/ \E T \in SUBSET Tags : \E values \in [T -> Values \cup {NoValue}] : SetConfig(values)
    \/ EraseConfig
    \/ WriteConfig
    \/ EraseSector
    \/ ProgramPage
    \/ VerifyWrite
    \/ Restart

StoreSpec == InitStore /\ [][NextStore]_storeVars

-----------------------------------------------------------------------------
StoreTypeOK ==
    /\ flash \in [Page -> Content]
    /\ cache \in [Tags -> Entry]
    /\ pxConfigInFlash \in 0 .. NPages
    /\ write \in [step : {"idle", "erase", "program", "verify"}, then : {"idle", "program"},
                  destination : Page, buffer : Lists]
    /\ cuts \in 0 .. MaxCuts

\* A TLV that the cache takes to be in the flash is there, in the current
\* configuration: neither an erase (save_config.c:470) nor a write leaves a
\* pointer to what is gone, and nothing that was set is taken for saved.
CacheMirrorsFlash ==
    \A t \in Tags : cache[t].at = "flash" =>
        /\ pxConfigInFlash # 0
        /\ Verified(flash, pxConfigInFlash)
        /\ cache[t].value = flash[pxConfigInFlash].list[t]
        /\ cache[t].value # NoValue

\* What a start-up at this moment would read.
Saved == LET i == FindConfig(flash) IN IF i = 0 THEN EmptyList ELSE flash[i].list

\* A signed page behind the current configuration: a write that was cut short
\* left it, or an erase that was, in which case it may hold an old configuration.
Leftover == pxConfigInFlash # 0 /\ \E i \in Page : i > pxConfigInFlash /\ Signed(flash, i)

\* The configuration in use is the one a start-up finds, unless a leftover hides
\* it: the search takes the last signed page, whatever it holds, and verifies
\* no other (save_config.c:245-262).
FoundAgain ==
    write.step \in {"idle", "program"} => pxConfigInFlash = FindConfig(flash) \/ Leftover

\* What a start-up would read changes in one step to what is being written.  It
\* is lost while the sector is erased (save_config.c:330, 465), and changes to
\* something else only when the page that is programmed is cut short or not
\* blank (340), or when it fills the gap in front of a leftover.
ReplacedAtOnce ==
    [][Saved' # Saved =>
        \/ write.step = "erase"
        \/ /\ write.step = "program"
           /\ \/ Saved' = write.buffer
              \/ flash'[write.destination] # Config(write.buffer)
              \/ Leftover]_flash
=============================================================================
