\* Auto DJ's orders and the preview; real DJs, replaced playlists, restarts.
CONSTANTS
    Tracks <- MCTracks
    Playlists <- MCPlaylists
    Preview = 2
SPECIFICATION OrderSpec
INVARIANTS
    OrdersFit
PROPERTIES
    AnnouncedIsPlayed
