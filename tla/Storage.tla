------------------------------ MODULE Storage ------------------------------
(***************************************************************************)
(* The database of the browser (fortrust-storage: lib.rs, settings.rs,      *)
(* bookmarks.rs, history.rs), with the two caches it keeps of its tables,   *)
(* as the browser window uses it (fortrust-chrome, app.rs).  A transaction  *)
(* either commits or fails; a failed one leaves the tables as they were.    *)
(***************************************************************************)
EXTENDS Naturals, FiniteSets, Functions

CONSTANTS
    Texts, Toggles, \* the settings, by the type load_browser_config expects
    Values,         \* the values of a setting
    Default,        \* the value of each, in Values
    Pages,          \* urls
    MaxVisit        \* bound: seconds of the clock that visits are stamped with

ASSUME StorageAssumption == Default \in Values /\ Texts \cap Toggles = {}

VARIABLES
    database,       \* closed, open, or fallback: opening it failed
    settings,       \* table "settings": from keys to typed values
    bookmarks,      \* table "bookmarks": the urls
    visits,         \* table "history": from urls to the time of the visit
    index,          \* table "history_index": from times to urls
    historyTables,  \* clear deletes the two history tables
    settingsCache,  \* of SettingsDatabase
    bookmarkCache,  \* of BookmarkDatabase: from ids to urls
    config,         \* what the window goes by, from keys to choices
    second,         \* the time, in whole seconds
    lost,           \* history: a write failed after its cache was changed
    chosen          \* history: the choices that were written to the disk

diskVars == <<settings, bookmarks, visits, index, historyTables>>
cacheVars == <<settingsCache, bookmarkCache>>
storeVars == <<database, diskVars, cacheVars, config, second, lost, chosen>>

Keys == Texts \union Toggles

None == <<>>

\* HashMap::insert.
Insert(map, key, value) ==
    [k \in DOMAIN map \union {key} |-> IF k = key THEN value ELSE map[k]]

StoreInit ==
    /\ database = "closed"
    /\ settings = None /\ bookmarks = {} /\ visits = None /\ index = None
    /\ historyTables = FALSE
    /\ settingsCache = None /\ bookmarkCache = None
    /\ config = [k \in Keys |-> Default]
    /\ second = 0 /\ lost = FALSE /\ chosen = None

Typed(type, value) == [type |-> type, value |-> value]

\* SettingValue::as_string, as_bool: a value of another type is no value.
Loaded(cache, key, type) ==
    IF key \in DOMAIN cache /\ cache[key].type = type THEN cache[key].value ELSE Default

LoadConfig(cache) ==
    [k \in Keys |-> Loaded(cache, k, IF k \in Texts THEN "text" ELSE "bool")]

\* The tables are made when they are missing and the caches read from them.
Open ==
    /\ database = "closed"
    /\ database' = "open"
    /\ historyTables' = TRUE
    /\ settingsCache' = settings
    /\ bookmarkCache' = [u \in bookmarks |-> u]
    /\ config' = LoadConfig(settings)
    /\ lost' = FALSE
    /\ UNCHANGED <<settings, bookmarks, visits, index, second, chosen>>

\* Another browser holds the file, or it is damaged. What is tried then is a
\* database at a path without a name; when that fails too the program panics.
OpenFails ==
    /\ database = "closed"
    /\ database' \in {"fallback", "closed"}
    /\ config' = LoadConfig(None)
    /\ UNCHANGED <<diskVars, cacheVars, second, lost, chosen>>

\* The browser ends, or is killed.
Exit ==
    /\ database # "closed"
    /\ database' = "closed"
    /\ settingsCache' = None /\ bookmarkCache' = None
    /\ UNCHANGED <<diskVars, config, second, lost, chosen>>

\* A transaction: what it changes, or nothing when it fails or there is no database.
Commits(change) == database = "open" /\ change /\ UNCHANGED lost
NotWritten ==
    /\ UNCHANGED <<diskVars, chosen>>
    /\ \/ database = "fallback" /\ UNCHANGED lost
       \/ database = "open" /\ lost' = TRUE

StoreSetting(key, value) ==
    /\ settingsCache' = Insert(settingsCache, key, value)
    /\ \/ Commits(/\ settings' = Insert(settings, key, value)
                  /\ chosen' = Insert(chosen, key, value.value)
                  /\ UNCHANGED <<bookmarks, visits, index, historyTables>>)
       \/ NotWritten

\* The user changes a setting in the sidebar, which stores each as a text.
Choose(key, choice) ==
    /\ database # "closed"
    /\ config[key] # choice
    /\ config' = [config EXCEPT ![key] = choice]
    /\ StoreSetting(key, Typed("text", choice))
    /\ UNCHANGED <<database, bookmarkCache, second>>

DeleteSetting(key) ==
    /\ database # "closed"
    /\ settingsCache' = Restrict(settingsCache, DOMAIN settingsCache \ {key})
    /\ UNCHANGED <<database, bookmarkCache, config, second>>
    /\ \/ Commits(/\ settings' = Restrict(settings, DOMAIN settings \ {key})
                  /\ chosen' = Restrict(chosen, DOMAIN chosen \ {key})
                  /\ UNCHANGED <<bookmarks, visits, index, historyTables>>)
       \/ NotWritten

Bookmarked(url) == \E id \in DOMAIN bookmarkCache : bookmarkCache[id] = url

\* Mutant of Unbookmark: the cache is left to the next start.
UnbookmarkOnDisk(url) ==
    /\ UNCHANGED bookmarkCache
    /\ \/ Commits(/\ bookmarks' = bookmarks \ {url}
                  /\ UNCHANGED <<settings, visits, index, historyTables, chosen>>)
       \/ NotWritten

\* BookmarkDatabase::delete and store; the id of a bookmark is its url.
Unbookmark(url) ==
    /\ bookmarkCache' =
         Restrict(bookmarkCache, {id \in DOMAIN bookmarkCache : bookmarkCache[id] # url})
    /\ \/ Commits(/\ bookmarks' = bookmarks \ {url}
                  /\ UNCHANGED <<settings, visits, index, historyTables, chosen>>)
       \/ NotWritten

Bookmark(url) ==
    /\ bookmarkCache' = Insert(bookmarkCache, url, url)
    /\ \/ Commits(/\ bookmarks' = bookmarks \union {url}
                  /\ UNCHANGED <<settings, visits, index, historyTables, chosen>>)
       \/ NotWritten

ToggleBookmark(url) ==
    /\ database # "closed"
    /\ IF Bookmarked(url) THEN Unbookmark(url) ELSE Bookmark(url)
    /\ UNCHANGED <<database, settingsCache, config, second>>

\* A visit is kept under its url, and the url under the second of the visit.
StoreVisit(url) ==
    /\ database = "open"
    /\ visits' = Insert(visits, url, second)
    /\ index' = Insert(index, second, url)
    /\ historyTables' = TRUE
    /\ UNCHANGED <<database, settings, bookmarks, cacheVars, config, second, lost, chosen>>

\* The entry of the time stays.
DeleteVisit(url) ==
    /\ database = "open"
    /\ visits' = Restrict(visits, DOMAIN visits \ {url})
    /\ historyTables' = TRUE
    /\ UNCHANGED <<database, settings, bookmarks, index, cacheVars, config, second, lost, chosen>>

\* Searches fail from here to the next visit or start.
ClearHistory ==
    /\ database = "open"
    /\ visits' = None /\ index' = None
    /\ historyTables' = FALSE
    /\ UNCHANGED <<database, settings, bookmarks, cacheVars, config, second, lost, chosen>>

\* The urls visited since from, the latest first; an error shows as none.
Searched(from) ==
    IF database = "open" /\ historyTables THEN {u \in DOMAIN visits : visits[u] >= from} ELSE {}

SecondPasses == second < MaxVisit /\ second' = second + 1
                /\ UNCHANGED <<database, diskVars, cacheVars, config, lost, chosen>>

StoreNext ==
    \/ Open \/ OpenFails \/ Exit
    \/ \E key \in Keys : DeleteSetting(key) \/ \E choice \in Values : Choose(key, choice)
    \/ \E url \in Pages : ToggleBookmark(url) \/ StoreVisit(url) \/ DeleteVisit(url)
    \/ ClearHistory
    \/ SecondPasses

StoreSpec == StoreInit /\ [][StoreNext]_storeVars

-----------------------------------------------------------------------------
\* What a start would read is what the window shows: unless a write failed since
\* the database was opened, the caches hold what the tables hold, through any
\* sequence of toggles, settings, exits and starts.
CacheOnDisk ==
    database = "open" /\ ~ lost =>
        /\ settingsCache = settings
        /\ {bookmarkCache[id] : id \in DOMAIN bookmarkCache} = bookmarks

\* "storage/history/bookmarks persist" (.qoder/specs/Fortrust_Browser_Completion_
\* 53d9c40c.md:5): the window goes by the choices that were written, after a start as
\* before it. The toggles are stored as texts and read as booleans, so they do not.
SettingsSurvive ==
    database = "open" /\ ~ lost => \A k \in DOMAIN chosen : config[k] = chosen[k]
=============================================================================
