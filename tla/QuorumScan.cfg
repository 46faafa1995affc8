\* three DKG intervals of three blocks: quorums at 3, 6 and 9, each mined
\* one or two blocks after its base; a scan cache of two entries of two
\* quorums, and calls for up to three
CONSTANTS
    MaxHeight = 11
    Interval = 3
    MaxCount = 3
    CacheSize = 2
SPECIFICATION Spec
 
PROPERTIES ScanRefinesSpec
