\* Two workers race on three versions of two contents; chunks of five
\* characters with an overlap of two.  The document of one content is refused.
SPECIFICATION Spec
CONSTANTS
    Versions = {v1, v2, v3}
    Workers = {w1, w2}
    Contents = {c1, c2}
    None = None
    MaxClaims = 2
    TargetChars = 4
    MaxChars = 5
    MinChunkChars = 3
    OverlapChars = 2
    Separator = 1
    DepthDistance = 1
    Letters = {"letter"}
    Segmented <- MCSegmented
    Normalized <- MCNormalized
SYMMETRY Symmetry
INVARIANTS PublishedIsServable OneProcessor UploadsAreNew StoredChunksAreSound
PROPERTIES ArtifactsStay RefinesPublication
CHECK_DEADLOCK FALSE
