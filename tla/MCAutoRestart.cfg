\* A restart between a preview and the next track.
CONSTANTS
    Tracks <- MCTracks
    Playlists <- MCPlaylists
    Preview = 2
SPECIFICATION OrderSpec
PROPERTIES
    PreviewSurvivesRestart
