\* Three signals; routing, TLS files and malformed values in turn.
SPECIFICATION Spec
CONSTANTS
    Signals <- SignalList
    Environments <- EveryEnvironment
    Urls <- UrlTable
    HeaderLists <- HeaderTable
    Plain <- PlainSettings
CHECK_DEADLOCK FALSE
INVARIANTS TypeOK GoesWhereDocumented ExportersAreDistinct MalformedAllReported RefusedAsDesigned OwnLogsFollow
