\* every setter of the compact header on the supremum record of a fresh page
CONSTANTS
    inf = inf
    sup = sup
    Recs = {sup}
    Origin <- MCOrigin
    InitBytes <- MCInitBytes
    InitFields <- MCInitFields
    InfoIn = {0, 16, 48}
    StatusIn = {1, 3}
    NOwnedIn = {8, 15}
    HeapNoIn = {2, 8191}
    NextIn = {0, 99, 16383}
SPECIFICATION Spec
PROPERTY RefinesRecordFields
